---- MODULE Spec2Model ----
(***************************************************************************)
(* AgentWallet: the transaction admission path (routes/transactions.js),   *)
(* the rules engine with its kill switch (services/rulesEngine, found in   *)
(* stripeService.js), the wallet routes (deposit, freeze, unfreeze), the   *)
(* Stripe payout path and the payment-rail adapters.                       *)
(*                                                                         *)
(* There is one agent with one wallet.  Every HTTP handler is an async     *)
(* function: between two awaited database calls any other request may run. *)
(* A request is a process p with a program counter proc[p].pc; each action *)
(* below is the code between two awaits.  Money is counted in whole units. *)
(***************************************************************************)
EXTENDS Integers, Sequences, FiniteSets, TLC

\* ---------------------------------------------------------------- bounds
NumProcs == 2          \* requests in flight at the same time
MaxTx == 3             \* rows of the Transaction table
MaxRailTx == 2         \* rows of the Transaction table under SpecRails
MaxTime == 2           \* the clock runs from 0 to MaxTime
MaxAudit == 2          \* rows of the AuditLog table
MaxBalance == 4        \* credits stop when the balance would pass MaxBalance
MaxDebits == 2         \* the history counter `debited` stops counting here

\* -------------------------------- configuration, in whole units of money
SeedBalance == 2             \* seed.js: the balance the wallet is created with
SeedPerTxLimit == 2          \* seed.js: PER_TRANSACTION_LIMIT { limit }
SeedDailyLimit == 3          \* seed.js: DAILY_LIMIT { limit }
SeedApprovalThreshold == 1   \* seed.js: REQUIRES_APPROVAL { threshold }
DayLen == 2                  \* clock units per day
KsWindow == 2                \* KillSwitch.windowHours, in clock units
KsThresholdNum == 1          \* KillSwitch.threshold of DRAWDOWN_PERCENT is
KsThresholdDen == 2          \*   KsThresholdNum / KsThresholdDen
MaxEvents == 2               \* rows of the DeadManSwitchEvent table
MaxPerMinute == 1            \* the maxTxPerMinute an owner configures
MinuteLen == 2               \* the 60 s velocity window, in clock units
HourLen == 4                 \* the hour _txWindows is trimmed to, in clock units
MaxAllows == 3               \* gate calls that may still be answered allow
HeartbeatInterval == 1       \* heartbeatIntervalSeconds an owner configures
MissedThreshold == 1         \* missedHeartbeatThreshold an owner configures
MaxOrders == 2               \* orders the in-memory wallet may send
MaxActions == 3              \* actions requested of the in-memory wallet
DenyOrderValue == 10000      \* default_max_order_value, in cents
ApprovalOrderValue == 5000   \* default_approval_threshold, in cents
DefaultDailyLimit == 6       \* _deriveChildPolicy: 1000, twice the seeded 500
DefaultPerTxLimit == 2       \* _deriveChildPolicy: 100, the seeded 100
DefaultMaxSpawnDepth == 3    \* _defaultSpawnPolicy: maxSpawnDepth
DefaultMaxChildren == 10     \* _defaultSpawnPolicy: maxChildren
MaxPolicies == 2             \* rows of the CrossAgentPolicy table
MaxCrossTx == 2              \* rows of the CrossAgentTransaction table
CrossPerTx == 2              \* maxPerTransaction an owner gives a policy
CrossDailyToTarget == 3      \* maxDailyToTarget an owner gives a policy
CrossDailyAll == 3           \* maxDailyAllAgents an owner gives a policy
CrossHumanAbove == 1         \* requireHumanApprovalAbove an owner gives

Procs == 1..NumProcs
Amounts == {1, 2}      \* amounts a request may carry
Callers == {"owner", "agent"}
Vendor == "vendor"     \* the host of an x402 service, an on-chain address
Recipients == {"none", Vendor}
Null == "null"
NoTime == 0 - 1        \* a timestamp column that is NULL

VARIABLES
  balance,       \* Wallet.balance
  walletStatus,  \* Wallet.status
  agentStatus,   \* Agent.status
  rules,         \* SpendRule rows of the wallet
  killSwitch,    \* the KillSwitch row of the wallet (exists = FALSE: none)
  txs,           \* Transaction rows; the id of a row is its index
  auditLog,      \* AuditLog rows
  frozenAgents,  \* DeadManSwitch: the process-level set _frozenAgents
  dmsConfig,     \* DeadManSwitchConfig rows, one per agent (exists = FALSE: none)
  txWindows,     \* DeadManSwitch: the process-level map _txWindows
  dmsEvents,     \* DeadManSwitchEvent rows
  lineage,       \* AgentLineage rows, one per agent (exists = FALSE: none)
  spawnEvents,   \* SpawnEvent rows
  crossPolicies, \* CrossAgentPolicy rows; the id of a row is its index
  crossTxs,      \* CrossAgentTransaction rows
  agentGroups,   \* AgentGroup rows, by name (exists = FALSE: none)
  allows,        \* history: the times at which the velocity gate answered allow
  heartbeats,    \* DeadManSwitch: the process-level map _heartbeats, in
                 \* insertion order
  sweep,         \* the callback of the heartbeat monitor: position and locals
  aw,            \* services/agentWallet.js: the in-memory agent wallet
  now,           \* the clock
  proc,          \* the requests in flight: operation, position, locals
  resp,          \* the response the last step sent, NoResp if it sent none
  debited        \* history: how often the wallet was decremented for a row

\* The state of the dead man's switch and of the spawn and cross-agent
\* governors.
crossVars == <<crossPolicies, crossTxs, agentGroups>>

hbVars == <<heartbeats, sweep>>

govVars == <<frozenAgents, dmsConfig, txWindows, dmsEvents, lineage,
             spawnEvents, crossVars, allows, hbVars, aw>>

vars == <<balance, walletStatus, agentStatus, rules, killSwitch, txs,
          auditLog, govVars, now, proc, resp, debited>>

Agent == "agent1"

\* The seeded agent and the agents the owner may create later; an agent that
\* was not created yet has the status NONE.
Agents == {"agent1", "agent2", "agent3"}

\* The names an owner gives to agent groups.
GroupNames == {"partners"}

\* No DeadManSwitchConfig row.
NoConfig == [exists |-> FALSE, enabled |-> FALSE, maxTxPerMinute |-> 0,
             onAnomaly |-> "alert", onManualTrigger |-> "terminate",
             cascadeToChildren |-> FALSE,
             heartbeatIntervalSeconds |-> 0, missedHeartbeatThreshold |-> 0,
             onMissedHeartbeat |-> "freeze"]

\* services/agentWallet.js before createAgent: no agent, no wallet.
NoWallet == [exists |-> FALSE, isActive |-> FALSE, killSwitchActive |-> FALSE,
             spendLimit |-> [maxPerOrder |-> 0, maxPerDay |-> 0,
                             maxPerWeek |-> 0, maxPositionSize |-> 0],
             spent |-> 0, sent |-> 0,
             last |-> [orderValue |-> 0, count |-> 0, open |-> FALSE,
                       error |-> Null, sent |-> FALSE],
             calls |-> <<>>, events |-> <<>>]

\* The monitor's callback is not running.
NoSweep == [pc |-> "idle", now |-> 0, pos |-> 0, agentId |-> Null,
            lastBeat |-> 0]

\* No AgentLineage row.
NoLineage == [exists |-> FALSE, parentId |-> Null, rootId |-> Null, depth |-> 0,
              childrenIds |-> <<>>, status |-> Null,
              spawnPolicy |-> [isNull |-> TRUE, maxSpawnDepth |-> 0,
                               maxChildren |-> 0, childrenCanSpawn |-> FALSE,
                               maxSpendRatio |-> 0,
                               maxTransactionRatio |-> 0]]

\* ------------------------------------------------------------- helpers
RECURSIVE SumIdx(_, _)
SumIdx(rows, S) ==
  IF S = {} THEN 0
  ELSE LET i == CHOOSE x \in S : TRUE
       IN  rows[i].amount + SumIdx(rows, S \ {i})

\* today.setHours(0, 0, 0, 0)
startOfDay(t) == (t \div DayLen) * DayLen

\* The locals of authorizeSpawn before its first await.
NoSpawnLocals == [parent |-> Null, child |-> Null, depth |-> 0,
                  rootId |-> Null]

\* A request slot that is not executing a handler.
IdleProc == [op |-> "none", pc |-> "idle", amount |-> 0, recipient |-> "none",
             tid |-> 0, status |-> Null, killSwitched |-> FALSE,
             shared |-> FALSE, window |-> <<>>, at |-> 0,
             spawn |-> NoSpawnLocals]

NoResp == [op |-> "none", tid |-> 0, res |-> Null]

\* prisma.transaction.create: createdAt defaults to the time of the insert.
NewTx(amount, category, status, completedAt, origin) ==
  [amount |-> amount, category |-> category, status |-> status,
   createdAt |-> now, completedAt |-> completedAt, origin |-> origin]

TxIds == 1..Len(txs)

\* --------------------------------------------------------- rules engine
\* RulesEngine.getSpendSince: the sum of the wallet's COMPLETED rows created
\* at or after `since`.
getSpendSince(since) ==
  SumIdx(txs, {i \in TxIds : txs[i].status = "COMPLETED"
                             /\ txs[i].createdAt >= since})

checkPerTransactionLimit(amount, limit) == amount <= limit

\* The limit a throttle has reduced is limit / div (div a power of ten).
checkDailyLimit(amount, limit, div) ==
  (getSpendSince(startOfDay(now)) + amount) * div <= limit

\* checkRequiresApproval never blocks; it raises the flag.
checkRequiresApproval(amount, threshold) == amount > threshold

\* checkRecipientWhitelist: params.recipients || [] ; no recipient passes.
checkRecipientWhitelist(recipient, allowed) ==
  recipient = "none" \/ recipient \in allowed

\* RulesEngine.evaluateRule: passed / requiresApproval of one rule.
evaluateRule(rule, amount, recipient) ==
  CASE rule.ruleType = "PER_TRANSACTION_LIMIT" ->
         [passed |-> checkPerTransactionLimit(amount, rule.limit),
          requiresApproval |-> FALSE]
    [] rule.ruleType = "DAILY_LIMIT" ->
         [passed |-> checkDailyLimit(amount, rule.limit, rule.limitDiv),
          requiresApproval |-> FALSE]
    [] rule.ruleType = "REQUIRES_APPROVAL" ->
         [passed |-> TRUE,
          requiresApproval |-> checkRequiresApproval(amount, rule.limit)]
    [] rule.ruleType = "RECIPIENT_WHITELIST" ->
         [passed |-> checkRecipientWhitelist(recipient, rule.recipients),
          requiresApproval |-> FALSE]
    [] OTHER -> [passed |-> TRUE, requiresApproval |-> FALSE]

ActiveRules == {i \in 1..Len(rules) : rules[i].active}

\* findMany({ where: { walletId, active: true }, orderBy: { priority: 'desc' } }):
\* the ids of the rules in S by descending priority; rows of equal priority
\* come in insertion order here (the database leaves their order open).
RECURSIVE rulesByPriority(_)
rulesByPriority(S) ==
  IF S = {} THEN <<>>
  ELSE LET i == CHOOSE j \in S : \A k \in S :
                  \/ rules[j].priority > rules[k].priority
                  \/ rules[j].priority = rules[k].priority /\ j <= k
       IN  <<i>> \o rulesByPriority(S \ {i})

\* The evaluation before the first rule (lines 356-358).
NoResults == [results |-> <<>>, approved |-> TRUE, requiresApproval |-> FALSE]

\* evaluateLoop with a break after the first rule that did not pass.
RECURSIVE evaluateLoopStoppingAtFailure(_, _, _, _)
evaluateLoopStoppingAtFailure(order, amount, recipient, acc) ==
  IF order = <<>> \/ ~acc.approved THEN acc
  ELSE LET rule == rules[Head(order)]
           result == evaluateRule(rule, amount, recipient)
       IN  evaluateLoopStoppingAtFailure(Tail(order), amount, recipient,
             [results |-> Append(acc.results,
                            [ruleId |-> Head(order), ruleType |-> rule.ruleType,
                             passed |-> result.passed]),
              approved |-> IF ~result.passed THEN FALSE ELSE acc.approved,
              requiresApproval |-> IF result.requiresApproval THEN TRUE
                                   ELSE acc.requiresApproval])

\* The loop of lines 360-378: each rule in turn is evaluated, its result is
\* pushed, and the two flags are updated; a failed rule does not end the loop.
RECURSIVE evaluateLoop(_, _, _, _)
evaluateLoop(order, amount, recipient, acc) ==
  IF order = <<>> THEN acc
  ELSE LET rule == rules[Head(order)]
           result == evaluateRule(rule, amount, recipient)
       IN  evaluateLoop(Tail(order), amount, recipient,
             [results |-> Append(acc.results,
                            [ruleId |-> Head(order), ruleType |-> rule.ruleType,
                             passed |-> result.passed]),
              approved |-> IF ~result.passed THEN FALSE ELSE acc.approved,
              requiresApproval |-> IF result.requiresApproval THEN TRUE
                                   ELSE acc.requiresApproval])

\* RulesEngine.evaluateTransaction, after the kill-switch check: the active
\* rules are read by descending priority and every one of them is evaluated.
evaluateTransaction(amount, recipient) ==
  evaluateLoop(rulesByPriority(ActiveRules), amount, recipient, NoResults)

\* The two flags of the evaluation.
evaluateRules(amount, recipient) ==
  LET ev == evaluateTransaction(amount, recipient)
  IN  [approved |-> ev.approved, requiresApproval |-> ev.requiresApproval]

\* statusOf without the AWAITING_APPROVAL branch of lines 78-79.
statusOfIgnoringApproval(ev) ==
  IF ~ev.approved THEN "REJECTED" ELSE "APPROVED"

\* routes/transactions.js: the status chosen from the evaluation.
statusOf(ev) ==
  IF ~ev.approved THEN "REJECTED"
  ELSE IF ev.requiresApproval THEN "AWAITING_APPROVAL"
  ELSE "APPROVED"

\* ------------------------------------------------------------ kill switch
\* checkKillSwitch: "already triggered and not reset" (ks.triggered && !ks.resetAt)
KsBlocks(ks) == ks.triggered /\ ks.resetAt = Null

\* evaluateKillSwitchCondition, DRAWDOWN_PERCENT: the peak is the current
\* balance plus the amount of every COMPLETED row created in the window.
KsWindowRows == {i \in TxIds : txs[i].status = "COMPLETED"
                               /\ txs[i].createdAt >= now - KsWindow}

peakBalance == balance + SumIdx(txs, KsWindowRows)

\* drawdown >= threshold, with drawdown = (peak - current) / peak, or 0 when
\* the peak is not positive; no rows in the window never triggers.
evaluateKillSwitchCondition(ks) ==
  /\ KsWindowRows # {}
  /\ IF peakBalance > 0
       THEN (peakBalance - balance) * ks.thresholdDen
              >= ks.thresholdNum * peakBalance
       ELSE 0 >= ks.thresholdNum

\* The wallet has no KillSwitch row.
NoKillSwitch == [exists |-> FALSE, active |-> FALSE, triggered |-> FALSE,
                 triggeredAt |-> Null, resetAt |-> Null,
                 thresholdNum |-> 0, thresholdDen |-> 1]

\* ------------------------------------------------------------------ Init
\* The state prisma/seed.js leaves: one owner, one active agent, one active
\* wallet with a balance and three spend rules, no transactions.
Init ==
  /\ balance = SeedBalance
  /\ walletStatus = "ACTIVE"
  /\ agentStatus = [a \in Agents |-> IF a = Agent THEN "ACTIVE" ELSE "NONE"]
  /\ rules = << [ruleType |-> "REQUIRES_APPROVAL", limit |-> SeedApprovalThreshold,
                 priority |-> 3, active |-> TRUE, recipients |-> {},
                 x402Domains |-> {}, throttled |-> FALSE, limitDiv |-> 1],
                [ruleType |-> "DAILY_LIMIT", limit |-> SeedDailyLimit,
                 priority |-> 2, active |-> TRUE, recipients |-> {},
                 x402Domains |-> {}, throttled |-> FALSE, limitDiv |-> 1],
                [ruleType |-> "PER_TRANSACTION_LIMIT", limit |-> SeedPerTxLimit,
                 priority |-> 1, active |-> TRUE, recipients |-> {},
                 x402Domains |-> {}, throttled |-> FALSE, limitDiv |-> 1] >>
  /\ killSwitch = NoKillSwitch
  /\ txs = <<>>
  /\ auditLog = <<>>
  /\ frozenAgents = {}
  /\ dmsConfig = [a \in Agents |-> NoConfig]
  /\ txWindows = [a \in Agents |-> <<>>]
  /\ dmsEvents = <<>>
  /\ lineage = [a \in Agents |-> NoLineage]
  /\ spawnEvents = <<>>
  /\ crossPolicies = <<>>
  /\ crossTxs = <<>>
  /\ agentGroups = [g \in GroupNames |-> [exists |-> FALSE, agentIds |-> {}]]
  /\ allows = <<>>
  /\ heartbeats = <<>>
  /\ sweep = NoSweep
  /\ aw = NoWallet
  /\ now = 0
  /\ proc = [p \in Procs |-> IdleProc]
  /\ resp = NoResp
  /\ debited = [i \in 1..MaxTx |-> 0]

\* ----------------------------------------------------- request plumbing
Idle(p) == proc[p].pc = "idle"

AllIdle == \A p \in Procs : Idle(p)

\* A new request takes the first free slot (the slots are interchangeable).
Free(p) == Idle(p) /\ \A q \in Procs : q < p => ~Idle(q)

\* The handler of p goes on at `pc` with the locals `me`.
Goto(p, me, pc) ==
  /\ proc' = [proc EXCEPT ![p] = [me EXCEPT !.pc = pc]]
  /\ resp' = NoResp

\* The handler of p answers `r` and ends.
Finish(p, me, r) ==
  /\ proc' = [proc EXCEPT ![p] = IdleProc]
  /\ resp' = [op |-> me.op, tid |-> me.tid, res |-> r]

\* authenticateApiKey: an agent key is refused unless the agent is ACTIVE.
Authenticated(caller) == caller = "owner" \/ agentStatus[Agent] = "ACTIVE"

\* A kill switch that has triggered and was not reset since.
KsLatched == killSwitch.exists /\ killSwitch.triggered

\* RulesEngine.logAudit: a failed insert is caught and only printed; the
\* insert fails once the table holds MaxAudit rows.  Every caller passes the
\* id of the wallet or of the kill switch as resourceId; there is one of each,
\* so the id is the pair <<resource, 1>>.
logAudit(action, resource, decision) ==
  auditLog' = IF Len(auditLog) < MaxAudit
                THEN Append(auditLog, [agentId |-> Agent, action |-> action,
                                       resource |-> resource,
                                       resourceId |-> <<resource, 1>>,
                                       decision |-> decision])
                ELSE auditLog

\* ------------------------------------ RulesEngine.evaluateTransaction
\* What the caller of evaluateTransaction does with the evaluation `ev`.
\*   submit (transactions.js 76-83): choose the status, create the row.
\*   adapters (stripeX402.js 89, 451): stop unless ev.approved.
AfterEvaluate(p, ev) ==
  LET me == [proc[p] EXCEPT !.killSwitched = ev.killSwitched,
                            !.status = statusOf(ev)]
  IN  CASE proc[p].op = "submit" -> Goto(p, me, "create")
        [] proc[p].op = "coinbase" /\ ev.approved -> Goto(p, me, "cb_send")
        [] proc[p].op = "x402" /\ ev.approved -> Goto(p, me, "x_allow")
        [] OTHER -> Finish(p, me, "BLOCKED_POLICY")

KsVerdict == [approved |-> FALSE, requiresApproval |-> FALSE,
              killSwitched |-> TRUE]

\* checkKillSwitch, lines 396-420: the active switch of the wallet is read;
\* a latched switch blocks, otherwise its condition is evaluated.
CheckKillSwitch(p) ==
  /\ proc[p].pc = "ks"
  /\ IF ~killSwitch.exists \/ ~killSwitch.active
       THEN Goto(p, proc[p], "rules")
     ELSE IF KsBlocks(killSwitch)
       THEN AfterEvaluate(p, KsVerdict)
     ELSE IF evaluateKillSwitchCondition(killSwitch)
       THEN Goto(p, proc[p], "ks_set")
     ELSE Goto(p, proc[p], "rules")
  /\ UNCHANGED <<balance, walletStatus, agentStatus, rules, killSwitch, txs,
                 auditLog, govVars, now, debited>>

\* Lines 422-429: the switch row is set to triggered.
KsSetTriggered(p) ==
  /\ proc[p].pc = "ks_set"
  /\ killSwitch.exists
  /\ killSwitch' = [killSwitch EXCEPT !.triggered = TRUE,
                                      !.triggeredAt = "set"]
  /\ Goto(p, proc[p], "ks_wallet")
  /\ UNCHANGED <<balance, walletStatus, agentStatus, rules, txs, auditLog,
                 govVars, now, debited>>

\* Lines 432-435: the wallet is set to KILL_SWITCHED.
KsFreezeWallet(p) ==
  /\ proc[p].pc = "ks_wallet"
  /\ walletStatus' = "KILL_SWITCHED"
  /\ Goto(p, proc[p], "ks_audit")
  /\ UNCHANGED <<balance, agentStatus, rules, killSwitch, txs, auditLog,
                 govVars, now, debited>>

\* Lines 438-464: the trigger is logged and the check reports triggered.
KsAudit(p) ==
  /\ proc[p].pc = "ks_audit"
  /\ logAudit("KILL_SWITCH_TRIGGERED", "wallet", "BLOCKED")
  /\ AfterEvaluate(p, KsVerdict)
  /\ UNCHANGED <<balance, walletStatus, agentStatus, rules, killSwitch, txs,
                 govVars, now, debited>>

\* Lines 351-388: the active rules are read and evaluated.
EvaluateRules(p) ==
  /\ proc[p].pc = "rules"
  /\ LET ev == evaluateRules(proc[p].amount, proc[p].recipient)
     IN  AfterEvaluate(p, [approved |-> ev.approved,
                           requiresApproval |-> ev.requiresApproval,
                           killSwitched |-> FALSE])
  /\ UNCHANGED <<balance, walletStatus, agentStatus, rules, killSwitch, txs,
                 auditLog, govVars, now, debited>>

\* ---------------------------------------- POST /api/transactions (submit)
\* Lines 15-66: validation, the wallet read, the status and balance checks.
SubmitStart(p, caller, amount, recipient) ==
  /\ Free(p)
  /\ LET me == [IdleProc EXCEPT !.op = "submit", !.amount = amount,
                                !.recipient = recipient]
     IN  IF ~Authenticated(caller) THEN Finish(p, me, "403")
         ELSE IF walletStatus # "ACTIVE"
           THEN Finish(p, me, "400_WALLET_NOT_ACTIVE")
         ELSE IF balance < amount
           THEN Finish(p, me, "400_INSUFFICIENT_BALANCE")
         ELSE Goto(p, me, "ks")
  /\ UNCHANGED <<balance, walletStatus, agentStatus, rules, killSwitch, txs,
                 auditLog, govVars, now, debited>>

\* Lines 85-131: the row is created with the chosen status; APPROVED goes on
\* to executeTransaction, REJECTED answers 400, AWAITING_APPROVAL answers 202.
SubmitCreate(p) ==
  /\ proc[p].op = "submit" /\ proc[p].pc = "create"
  /\ Len(txs) < MaxTx
  /\ txs' = Append(txs, NewTx(proc[p].amount, "payment", proc[p].status,
                              NoTime, "submit"))
  /\ LET me == [proc[p] EXCEPT !.tid = Len(txs) + 1]
     IN  CASE proc[p].status = "APPROVED" -> Goto(p, me, "x_debit")
           [] proc[p].status = "REJECTED" -> Finish(p, me, "400_REJECTED")
           [] OTHER -> Finish(p, me, "202")
  /\ UNCHANGED <<balance, walletStatus, agentStatus, rules, killSwitch,
                 auditLog, govVars, now, debited>>

\* ------------------------------------------------ executeTransaction
\* Lines 306-316: the row is read and the wallet decremented by its amount.
ExecuteDebit(p) ==
  /\ proc[p].pc = "x_debit"
  /\ balance' = balance - txs[proc[p].tid].amount
  /\ debited' = [debited EXCEPT ![proc[p].tid] =
                                     IF @ < MaxDebits THEN @ + 1 ELSE @]
  /\ Goto(p, proc[p], "x_complete")
  /\ UNCHANGED <<walletStatus, agentStatus, rules, killSwitch, txs,
                 auditLog, govVars, now>>

\* Lines 319-325: the row becomes COMPLETED, completedAt = new Date().
ExecuteComplete(p) ==
  /\ proc[p].pc = "x_complete"
  /\ txs' = [txs EXCEPT ![proc[p].tid].status = "COMPLETED",
                        ![proc[p].tid].completedAt = now]
  /\ Finish(p, proc[p], IF proc[p].op = "submit" THEN "201" ELSE "200")
  /\ UNCHANGED <<balance, walletStatus, agentStatus, rules, killSwitch,
                 auditLog, govVars, now, debited>>

\* ApproveStart without the status check of lines 186-191.
ApproveStartNoStateCheck(p, caller, t) ==
  /\ Free(p)
  /\ t \in TxIds
  /\ LET me == [IdleProc EXCEPT !.op = "approve", !.tid = t]
     IN  IF caller # "owner" THEN Finish(p, me, "403")
         ELSE Goto(p, me, "a_wallet")
  /\ UNCHANGED <<balance, walletStatus, agentStatus, rules, killSwitch, txs,
                 auditLog, govVars, now, debited>>

\* -------------------------------- POST /api/transactions/:id/approve
\* Lines 166-193: owner only; the row must be AWAITING_APPROVAL.
ApproveStart(p, caller, t) ==
  /\ Free(p)
  /\ t \in TxIds
  /\ LET me == [IdleProc EXCEPT !.op = "approve", !.tid = t]
     IN  IF caller # "owner" THEN Finish(p, me, "403")
         ELSE IF txs[t].status # "AWAITING_APPROVAL"
           THEN Finish(p, me, "400_NOT_AWAITING_APPROVAL")
         ELSE Goto(p, me, "a_wallet")
  /\ UNCHANGED <<balance, walletStatus, agentStatus, rules, killSwitch, txs,
                 auditLog, govVars, now, debited>>

\* Lines 195-205: the balance is checked again, then executeTransaction.
ApproveCheckBalance(p) ==
  /\ proc[p].pc = "a_wallet"
  /\ IF balance < txs[proc[p].tid].amount
       THEN Finish(p, proc[p], "400_INSUFFICIENT_BALANCE")
       ELSE Goto(p, proc[p], "x_debit")
  /\ UNCHANGED <<balance, walletStatus, agentStatus, rules, killSwitch, txs,
                 auditLog, govVars, now, debited>>

\* --------------------------------- POST /api/transactions/:id/reject
\* Lines 219-245: owner only; the row must be AWAITING_APPROVAL.
RejectStart(p, caller, t) ==
  /\ Free(p)
  /\ t \in TxIds
  /\ LET me == [IdleProc EXCEPT !.op = "reject", !.tid = t]
     IN  IF caller # "owner" THEN Finish(p, me, "403")
         ELSE IF txs[t].status # "AWAITING_APPROVAL"
           THEN Finish(p, me, "400_NOT_AWAITING_APPROVAL")
         ELSE Goto(p, me, "r_update")
  /\ UNCHANGED <<balance, walletStatus, agentStatus, rules, killSwitch, txs,
                 auditLog, govVars, now, debited>>

\* Lines 247-263: the row becomes REJECTED.
RejectUpdate(p) ==
  /\ proc[p].pc = "r_update"
  /\ txs' = [txs EXCEPT ![proc[p].tid].status = "REJECTED"]
  /\ Finish(p, proc[p], "200")
  /\ UNCHANGED <<balance, walletStatus, agentStatus, rules, killSwitch,
                 auditLog, govVars, now, debited>>

\* ------------------------------------- POST /api/wallets/:id/deposit
\* spawn.js 298-322: the amount is positive, the wallet must be ACTIVE.
DepositStart(p, caller, amount) ==
  /\ Free(p)
  /\ LET me == [IdleProc EXCEPT !.op = "deposit", !.amount = amount]
     IN  IF ~Authenticated(caller) THEN Finish(p, me, "403")
         ELSE IF walletStatus # "ACTIVE"
           THEN Finish(p, me, "400_WALLET_NOT_ACTIVE")
         ELSE Goto(p, me, "d_inc")
  /\ UNCHANGED <<balance, walletStatus, agentStatus, rules, killSwitch, txs,
                 auditLog, govVars, now, debited>>

\* DepositIncrement with a fixed increment of one unit.
DepositIncrementByOne(p) ==
  /\ proc[p].pc = "d_inc"
  /\ balance + 1 <= MaxBalance
  /\ balance' = balance + 1
  /\ Goto(p, proc[p], "d_create")
  /\ UNCHANGED <<walletStatus, agentStatus, rules, killSwitch, txs,
                 auditLog, govVars, now, debited>>

\* spawn.js 325-330 and stripeService.js 146-151: balance += amount.
DepositIncrement(p) ==
  /\ proc[p].pc = "d_inc"
  /\ balance + proc[p].amount <= MaxBalance
  /\ balance' = balance + proc[p].amount
  /\ Goto(p, proc[p], "d_create")
  /\ UNCHANGED <<walletStatus, agentStatus, rules, killSwitch, txs,
                 auditLog, govVars, now, debited>>

\* spawn.js 333-350 and stripeService.js 154-171: a COMPLETED row of category
\* deposit with completedAt = new Date().
DepositCreate(p) ==
  /\ proc[p].pc = "d_create"
  /\ Len(txs) < MaxTx
  /\ txs' = Append(txs, NewTx(proc[p].amount, "deposit", "COMPLETED", now,
                              proc[p].op))
  /\ Finish(p, [proc[p] EXCEPT !.tid = Len(txs) + 1], "200")
  /\ UNCHANGED <<balance, walletStatus, agentStatus, rules, killSwitch,
                 auditLog, govVars, now, debited>>

\* Webhook payment_intent.succeeded of a deposit: handlePaymentSuccess credits
\* the wallet whatever its status.
StripeDepositStart(p, amount) ==
  /\ Free(p)
  /\ Goto(p, [IdleProc EXCEPT !.op = "stripe_deposit", !.amount = amount],
          "d_inc")
  /\ UNCHANGED <<balance, walletStatus, agentStatus, rules, killSwitch, txs,
                 auditLog, govVars, now, debited>>

\* --------------------------- POST /api/wallets/:id/freeze and /unfreeze
\* Owner only; the status is overwritten whatever it was.
Freeze ==
  /\ walletStatus' = "FROZEN"
  /\ resp' = NoResp
  /\ UNCHANGED <<balance, agentStatus, rules, killSwitch, txs, auditLog,
                 govVars, now, proc, debited>>

Unfreeze ==
  /\ walletStatus' = "ACTIVE"
  /\ resp' = NoResp
  /\ UNCHANGED <<balance, agentStatus, rules, killSwitch, txs, auditLog,
                 govVars, now, proc, debited>>

\* ------------------------------ POST /api/stripe/payout (createPayout)
\* stripeService.js 183-193: the wallet is read; only the balance is checked.
PayoutStart(p, caller, amount) ==
  /\ Free(p)
  /\ LET me == [IdleProc EXCEPT !.op = "payout", !.amount = amount]
     IN  IF ~Authenticated(caller) THEN Finish(p, me, "403")
         ELSE IF balance < amount
           THEN Finish(p, me, "400_INSUFFICIENT_BALANCE")
         ELSE Goto(p, me, "p_dec")
  /\ UNCHANGED <<balance, walletStatus, agentStatus, rules, killSwitch, txs,
                 auditLog, govVars, now, debited>>

\* Lines 199-204: "deduct from wallet first".
PayoutDecrement(p) ==
  /\ proc[p].pc = "p_dec"
  /\ balance' = balance - proc[p].amount
  /\ Goto(p, proc[p], "p_create")
  /\ UNCHANGED <<walletStatus, agentStatus, rules, killSwitch, txs,
                 auditLog, govVars, now, debited>>

\* Lines 207-230: a PENDING row of category withdrawal.
PayoutCreate(p) ==
  /\ proc[p].pc = "p_create"
  /\ Len(txs) < MaxTx
  /\ txs' = Append(txs, NewTx(proc[p].amount, "withdrawal", "PENDING", NoTime,
                              "payout"))
  /\ debited' = [debited EXCEPT ![Len(txs) + 1] = @ + 1]
  /\ Finish(p, [proc[p] EXCEPT !.tid = Len(txs) + 1], "200")
  /\ UNCHANGED <<balance, walletStatus, agentStatus, rules, killSwitch,
                 auditLog, govVars, now>>

\* Webhook payout.paid (rules.js 445-463) for a payout that is pending.
PayoutPaid(t) ==
  /\ t \in TxIds /\ txs[t].origin = "payout" /\ txs[t].status = "PENDING"
  /\ txs' = [txs EXCEPT ![t].status = "COMPLETED", ![t].completedAt = now]
  /\ resp' = NoResp
  /\ UNCHANGED <<balance, walletStatus, agentStatus, rules, killSwitch,
                 auditLog, govVars, now, proc, debited>>

\* Webhook payout.failed (rules.js 468-496) for a payout that has not failed
\* yet: the wallet is refunded and the row marked FAILED.
PayoutFailed(t) ==
  /\ t \in TxIds /\ txs[t].origin = "payout"
  /\ txs[t].status \in {"PENDING", "COMPLETED"}
  /\ balance + txs[t].amount <= MaxBalance
  /\ balance' = balance + txs[t].amount
  /\ debited' = [debited EXCEPT ![t] = @ - 1]
  /\ txs' = [txs EXCEPT ![t].status = "FAILED"]
  /\ resp' = NoResp
  /\ UNCHANGED <<walletStatus, agentStatus, rules, killSwitch, auditLog,
                 govVars, now, proc>>

\* ------------------------------------------------- /api/killswitch
\* POST /api/killswitch (part_005 28-110), owner only: a DRAWDOWN_PERCENT
\* switch on the wallet.  The model holds one switch.
CreateKillSwitch ==
  /\ ~killSwitch.exists
  /\ killSwitch' = [exists |-> TRUE, active |-> TRUE, triggered |-> FALSE,
                    triggeredAt |-> Null, resetAt |-> Null, thresholdNum |-> KsThresholdNum,
                    thresholdDen |-> KsThresholdDen]
  /\ logAudit("RULE_CREATED", "kill_switch", "SYSTEM")
  /\ resp' = NoResp
  /\ UNCHANGED <<balance, walletStatus, agentStatus, rules, txs,
                 govVars, now, proc, debited>>

\* POST /api/killswitch/:id/reset (part_005 184-225) and
\* RulesEngine.resetKillSwitch: only a triggered switch; the switch is
\* cleared, resetAt set, the wallet reactivated, the reset logged.
ResetKillSwitch ==
  /\ killSwitch.exists /\ killSwitch.triggered
  /\ killSwitch' = [killSwitch EXCEPT !.triggered = FALSE,
                                      !.triggeredAt = Null, !.resetAt = "set"]
  /\ walletStatus' = "ACTIVE"
  /\ logAudit("KILL_SWITCH_RESET", "kill_switch", "ALLOWED")
  /\ resp' = NoResp
  /\ UNCHANGED <<balance, agentStatus, rules, txs, govVars, now, proc,
                 debited>>

\* POST /api/killswitch/emergency/:walletId (part_005 343-392), owner only.
EmergencyStop ==
  /\ walletStatus' = "KILL_SWITCHED"
  /\ agentStatus' = [agentStatus EXCEPT ![Agent] = "KILLED"]
  /\ logAudit("KILL_SWITCH_TRIGGERED", "wallet", "BLOCKED")
  /\ resp' = NoResp
  /\ UNCHANGED <<balance, rules, killSwitch, txs, govVars, now, proc,
                 debited>>

\* ------------------------------------------------------------- failures
\* The write that follows a balance update throws (or the process dies): the
\* handler ends with a 500 and what it has written so far stays, since no
\* handler wraps its writes in a database transaction.
FailPoints == {"x_complete", "d_create", "p_create"}

Fail(p) ==
  /\ proc[p].pc \in FailPoints
  /\ Finish(p, proc[p], "500")
  /\ UNCHANGED <<balance, walletStatus, agentStatus, rules, killSwitch, txs,
                 auditLog, govVars, now, debited>>

\* -------------------------------------------------------------- the clock
Tick ==
  /\ now < MaxTime
  /\ now' = now + 1
  /\ resp' = NoResp
  /\ UNCHANGED <<balance, walletStatus, agentStatus, rules, killSwitch, txs,
                 auditLog, govVars, proc, debited>>

\* ----------------------------------------------------- payment rails
\* DeadManSwitch.evaluateTransaction (part_008 97-106): a frozen agent is
\* stopped; an agent without a DMS configuration is not restricted.
dmsAllows == Agent \notin frozenAgents

\* CoinbaseAgenticWalletAdapter.sendTransaction, lines 428-447: the dead man's
\* switch gate, then the rules engine on the agent's wallet.  Neither the
\* wallet status nor the balance is read.
CoinbaseStart(p, amount) ==
  /\ Free(p)
  /\ LET me == [IdleProc EXCEPT !.op = "coinbase", !.amount = amount,
                                !.recipient = Vendor]
     IN  IF ~dmsAllows THEN Finish(p, me, "BLOCKED_KILL_SWITCH")
         ELSE Goto(p, me, "ks")
  /\ UNCHANGED <<balance, walletStatus, agentStatus, rules, killSwitch, txs,
                 auditLog, govVars, now, debited>>

\* Lines 458-494: the destination is no known agent; the agent holds a
\* Coinbase wallet (createWallet linked it); the transfer succeeds or not.
CoinbaseSend(p, ok) ==
  /\ proc[p].pc = "cb_send"
  /\ IF ok THEN Goto(p, proc[p], "cb_record")
     ELSE Finish(p, proc[p], "FAILED")
  /\ UNCHANGED <<balance, walletStatus, agentStatus, rules, killSwitch, txs,
                 auditLog, govVars, now, debited>>

\* Lines 497-514: the row is created COMPLETED; completedAt is not given and
\* the wallet is not updated.
CoinbaseRecord(p) ==
  /\ proc[p].pc = "cb_record"
  /\ Len(txs) < MaxTx
  /\ txs' = Append(txs, NewTx(proc[p].amount, Null, "COMPLETED", NoTime,
                              "coinbase"))
  /\ Finish(p, [proc[p] EXCEPT !.tid = Len(txs) + 1], "SUCCESS")
  /\ UNCHANGED <<balance, walletStatus, agentStatus, rules, killSwitch,
                 auditLog, govVars, now, debited>>

\* StripeX402Proxy.request, lines 36-84: a response other than 402 passes
\* through; a 402 goes to the dead man's switch gate and the rules engine.
X402Start(p, amount, is402) ==
  /\ Free(p)
  /\ LET me == [IdleProc EXCEPT !.op = "x402", !.amount = amount,
                                !.recipient = Vendor]
     IN  IF ~is402 THEN Finish(p, me, "PASS_THROUGH")
         ELSE IF ~dmsAllows THEN Finish(p, me, "BLOCKED_KILL_SWITCH")
         ELSE Goto(p, me, "ks")
  /\ UNCHANGED <<balance, walletStatus, agentStatus, rules, killSwitch, txs,
                 auditLog, govVars, now, debited>>

\* listAllowedServices / _isServiceAllowed (lines 200-217): the x402Domains of
\* the first active RECIPIENT_WHITELIST rule; none configured denies.
WhitelistRules == {i \in ActiveRules : rules[i].ruleType = "RECIPIENT_WHITELIST"}

isServiceAllowed(domain) ==
  /\ WhitelistRules # {}
  /\ LET i == CHOOSE j \in WhitelistRules : \A k \in WhitelistRules : j <= k
     IN  domain \in rules[i].x402Domains

\* Lines 101-115: the allowlist, then the Stripe payment intent.
X402Allow(p, ok) ==
  /\ proc[p].pc = "x_allow"
  /\ IF ~isServiceAllowed(proc[p].recipient)
       THEN Finish(p, proc[p], "BLOCKED_ALLOWLIST")
     ELSE IF ok THEN Goto(p, proc[p], "x_record")
     ELSE Finish(p, proc[p], "FAILED")
  /\ UNCHANGED <<balance, walletStatus, agentStatus, rules, killSwitch, txs,
                 auditLog, govVars, now, debited>>

\* Lines 118-134: the row is created COMPLETED, as in CoinbaseRecord.
X402Record(p) ==
  /\ proc[p].pc = "x_record"
  /\ Len(txs) < MaxTx
  /\ txs' = Append(txs, NewTx(proc[p].amount, Null, "COMPLETED", NoTime, "x402"))
  /\ Finish(p, [proc[p] EXCEPT !.tid = Len(txs) + 1], "PAID")
  /\ UNCHANGED <<balance, walletStatus, agentStatus, rules, killSwitch,
                 auditLog, govVars, now, debited>>

\* POST /api/rules (rules.js 27-83) with a RECIPIENT_WHITELIST naming the
\* vendor; the wallet gets at most one such rule here.
CreateWhitelistRule ==
  /\ \A i \in 1..Len(rules) : rules[i].ruleType # "RECIPIENT_WHITELIST"
  /\ rules' = Append(rules, [ruleType |-> "RECIPIENT_WHITELIST", limit |-> 0,
                             priority |-> 0, active |-> TRUE,
                             recipients |-> {Vendor}, x402Domains |-> {}, throttled |-> FALSE, limitDiv |-> 1])
  /\ resp' = NoResp
  /\ UNCHANGED <<balance, walletStatus, agentStatus, killSwitch, txs,
                 auditLog, govVars, now, proc, debited>>

\* StripeX402Proxy.addServiceToAllowlist (lines 161-198): the domain joins the
\* active whitelist rule; without one a rule with only x402Domains is created.
addServiceToAllowlist ==
  /\ IF WhitelistRules # {}
       THEN LET i == CHOOSE j \in WhitelistRules :
                       \A k \in WhitelistRules : j <= k
            IN  rules' = [rules EXCEPT ![i].x402Domains = @ \cup {Vendor}]
       ELSE /\ \A i \in 1..Len(rules) : rules[i].ruleType # "RECIPIENT_WHITELIST"
            /\ rules' = Append(rules,
                   [ruleType |-> "RECIPIENT_WHITELIST", limit |-> 0,
                    priority |-> 10, active |-> TRUE, recipients |-> {},
                    x402Domains |-> {Vendor}, throttled |-> FALSE, limitDiv |-> 1])
  /\ resp' = NoResp
  /\ UNCHANGED <<balance, walletStatus, agentStatus, killSwitch, txs,
                 auditLog, govVars, now, proc, debited>>

\* ----------------------------------------------------- specifications
\* The steps of the rules engine inside a handler.
EngineStep(p) ==
  \/ CheckKillSwitch(p)
  \/ KsSetTriggered(p)
  \/ KsFreezeWallet(p)
  \/ KsAudit(p)
  \/ EvaluateRules(p)

\* The steps of submit, approve and reject.
LedgerStep(p) ==
  \/ SubmitCreate(p)
  \/ ExecuteDebit(p)
  \/ ExecuteComplete(p)
  \/ ApproveCheckBalance(p)
  \/ RejectUpdate(p)

\* The steps of deposit, payout and the adapters.
RailStep(p) ==
  \/ DepositIncrement(p)
  \/ DepositCreate(p)
  \/ PayoutDecrement(p)
  \/ PayoutCreate(p)
  \/ \E ok \in BOOLEAN : CoinbaseSend(p, ok)
  \/ CoinbaseRecord(p)
  \/ \E ok \in BOOLEAN : X402Allow(p, ok)
  \/ X402Record(p)

LedgerStart(p) ==
  \/ \E c \in Callers, a \in Amounts, r \in Recipients :
       SubmitStart(p, c, a, r)
  \/ \E c \in Callers, t \in 1..MaxTx : ApproveStart(p, c, t)
  \/ \E c \in Callers, t \in 1..MaxTx : RejectStart(p, c, t)

\* Spec: submit, approve and reject arrive at any time and interleave at
\* their awaits; a handler may die between its two writes.
Next ==
  \/ \E p \in Procs : LedgerStart(p)
  \/ \E p \in Procs : CheckKillSwitch(p)
  \/ \E p \in Procs : EvaluateRules(p)
  \/ \E p \in Procs : LedgerStep(p)
  \/ \E p \in Procs : Fail(p)

Spec == Init /\ [][Next]_vars

\* SpecKs: one request at a time; the kill switch, the wallet status and the
\* ledger.
NextKs ==
  \/ AllIdle /\ \E p \in Procs : LedgerStart(p)
  \/ AllIdle /\ Freeze
  \/ AllIdle /\ Unfreeze
  \/ AllIdle /\ CreateKillSwitch
  \/ AllIdle /\ ResetKillSwitch
  \/ AllIdle /\ EmergencyStop
  \/ \E p \in Procs : EngineStep(p)
  \/ \E p \in Procs : LedgerStep(p)

SpecKs == Init /\ [][NextKs]_vars

\* SpecRails: one request at a time; every path that writes a transaction
\* row or moves the balance, and the clock.  A request that may add a row
\* arrives while the table has fewer than MaxRailTx rows.
RailsRoom == AllIdle /\ Len(txs) < MaxRailTx

NextRails ==
  \/ RailsRoom /\ \E p \in Procs : LedgerStart(p)
  \/ RailsRoom /\ \E p \in Procs, c \in Callers, a \in Amounts : DepositStart(p, c, a)
  \/ RailsRoom /\ \E p \in Procs, a \in Amounts : StripeDepositStart(p, a)
  \/ RailsRoom /\ \E p \in Procs, c \in Callers, a \in Amounts : PayoutStart(p, c, a)
  \/ RailsRoom /\ \E p \in Procs, a \in Amounts : CoinbaseStart(p, a)
  \/ RailsRoom /\ \E p \in Procs, a \in Amounts, b \in BOOLEAN : X402Start(p, a, b)
  \/ AllIdle /\ \E t \in 1..MaxTx : PayoutPaid(t)
  \/ AllIdle /\ \E t \in 1..MaxTx : PayoutFailed(t)
  \/ AllIdle /\ CreateWhitelistRule
  \/ AllIdle /\ addServiceToAllowlist
  \/ AllIdle /\ Tick
  \/ \E p \in Procs : CheckKillSwitch(p)
  \/ \E p \in Procs : EvaluateRules(p)
  \/ \E p \in Procs : LedgerStep(p)
  \/ \E p \in Procs : RailStep(p)

SpecRails == Init /\ [][NextRails]_vars

\* SpecDaily: one request at a time; submit, approve, reject, the owner's
\* deposits, and the clock.
NextDaily ==
  \/ AllIdle /\ \E p \in Procs : LedgerStart(p)
  \/ AllIdle /\ \E p \in Procs, a \in Amounts : DepositStart(p, "owner", a)
  \/ AllIdle /\ Tick
  \/ \E p \in Procs : CheckKillSwitch(p)
  \/ \E p \in Procs : EvaluateRules(p)
  \/ \E p \in Procs : LedgerStep(p)
  \/ \E p \in Procs : DepositIncrement(p)
  \/ \E p \in Procs : DepositCreate(p)

SpecDaily == Init /\ [][NextDaily]_vars

\* SpecDrawdown: one request at a time; submit, approve, reject, deposits
\* and payouts on a wallet whose owner creates a drawdown switch.
NextDrawdown ==
  \/ AllIdle /\ \E p \in Procs : LedgerStart(p)
  \/ AllIdle /\ \E p \in Procs, a \in Amounts : DepositStart(p, "owner", a)
  \/ AllIdle /\ \E p \in Procs, a \in Amounts : PayoutStart(p, "owner", a)
  \/ AllIdle /\ CreateKillSwitch
  \/ \E p \in Procs : EngineStep(p)
  \/ \E p \in Procs : LedgerStep(p)
  \/ \E p \in Procs : DepositIncrement(p)
  \/ \E p \in Procs : DepositCreate(p)
  \/ \E p \in Procs : PayoutDecrement(p)
  \/ \E p \in Procs : PayoutCreate(p)

SpecDrawdown == Init /\ [][NextDrawdown]_vars

\* ---------------------------------------------------------------- agents
AgentStatuses == {"ACTIVE", "PAUSED", "SUSPENDED", "FROZEN", "TERMINATED",
                  "KILLED"}

Exists(a) == agentStatus[a] # "NONE"

\* The elements of a sequence.
SeqToSet(s) == {s[i] : i \in 1..Len(s)}

\* POST /api/agents (rules.js 512-535): the row is created with the default
\* status ACTIVE.  Ids are generated, so the agents are created in order.
CreateAgent(a) ==
  /\ ~Exists(a)
  /\ \A b \in Agents : (b # a /\ ~Exists(b)) => a = "agent2"
  /\ agentStatus' = [agentStatus EXCEPT ![a] = "ACTIVE"]
  /\ resp' = NoResp
  /\ UNCHANGED <<balance, walletStatus, rules, killSwitch, txs, auditLog,
                 govVars, now, proc, debited>>

\* PATCH /api/agents/:id (rules.js 610-629), owner only: the status of the
\* body is written whatever the current status is.
PatchAgent(a, status) ==
  /\ Exists(a)
  /\ agentStatus' = [agentStatus EXCEPT ![a] = status]
  /\ resp' = NoResp
  /\ UNCHANGED <<balance, walletStatus, rules, killSwitch, txs, auditLog,
                 govVars, now, proc, debited>>

\* POST /api/agents/:id/pause (rules.js 635-648), owner only.
PauseAgent(a) ==
  /\ Exists(a)
  /\ agentStatus' = [agentStatus EXCEPT ![a] = "PAUSED"]
  /\ resp' = NoResp
  /\ UNCHANGED <<balance, walletStatus, rules, killSwitch, txs, auditLog,
                 govVars, now, proc, debited>>

\* POST /api/agents/:id/activate (rules.js 654-667), owner only.
ActivateAgent(a) ==
  /\ Exists(a)
  /\ agentStatus' = [agentStatus EXCEPT ![a] = "ACTIVE"]
  /\ resp' = NoResp
  /\ UNCHANGED <<balance, walletStatus, rules, killSwitch, txs, auditLog,
                 govVars, now, proc, debited>>

\* ------------------------------------------------------ dead man's switch
\* The configurations an owner registers: every field is given in the body.
\* (onAnomaly 'throttle' is left out.)
ConfigInputs ==
  {[exists |-> TRUE, enabled |-> TRUE, maxTxPerMinute |-> MaxPerMinute,
    onAnomaly |-> oa, onManualTrigger |-> "terminate",
    cascadeToChildren |-> c,
    heartbeatIntervalSeconds |-> HeartbeatInterval,
    missedHeartbeatThreshold |-> MissedThreshold,
    onMissedHeartbeat |-> "freeze"] : oa \in {"alert", "freeze"}, c \in BOOLEAN}

\* _heartbeats.set(agentId, new Date()): the entry of a known agent is
\* overwritten in place, a new agent is added at the end of the map.
hbSet(a, t) ==
  IF \E i \in 1..Len(heartbeats) : heartbeats[i].agentId = a
    THEN [i \in 1..Len(heartbeats) |->
            IF heartbeats[i].agentId = a THEN [agentId |-> a, at |-> t]
            ELSE heartbeats[i]]
    ELSE Append(heartbeats, [agentId |-> a, at |-> t])

\* DeadManSwitch.registerAgent (part_008 34-61) behind POST
\* /api/deadman/agents/:agentId/register: the row is upserted.
registerAgent(a, config) ==
  /\ Exists(a)
  /\ dmsConfig[a] # config
  /\ dmsConfig' = [dmsConfig EXCEPT ![a] = config]
  /\ heartbeats' = hbSet(a, now)
  /\ resp' = NoResp
  /\ UNCHANGED <<balance, walletStatus, agentStatus, rules, killSwitch, txs,
                 auditLog, frozenAgents, txWindows, dmsEvents, lineage,
                 spawnEvents, crossVars, allows, sweep, now, proc, debited, aw>>

\* The agents _trigger reaches from a: a itself and, when the configuration
\* says cascadeToChildren, the childrenIds of a's lineage row.
cascadedTo(a, config) ==
  IF config.exists /\ config.cascadeToChildren /\ lineage[a].exists
    THEN lineage[a].childrenIds
    ELSE <<>>

\* Lines 292-306, action throttle: every active DAILY_LIMIT rule of the
\* agent's wallets gets limit = (limit || 1000) * 0.1 and throttled = true.
\* Only the seeded agent holds a wallet.  The limit is kept as limit /
\* limitDiv, so that a tenth of it is exact.
throttleRules(a) ==
  [i \in 1..Len(rules) |->
     IF a = Agent /\ rules[i].ruleType = "DAILY_LIMIT" /\ rules[i].active
       THEN [rules[i] EXCEPT !.limit = IF @ = 0 THEN 1000 ELSE @,
                             !.limitDiv = IF rules[i].limit = 0 THEN 10
                                          ELSE @ * 10,
                             !.throttled = TRUE]
       ELSE rules[i]]

\* DeadManSwitch._trigger (part_008 286-358): the spend rules (throttle), the
\* frozen set, Agent.status of a and of the agents it cascades to, the
\* lineage status, and the DeadManSwitchEvent row.
trigger(a, triggerType, action, config) ==
  LET hit == IF action \in {"freeze", "terminate"}
               THEN {a} \cup SeqToSet(cascadedTo(a, config))
               ELSE {}
      status == IF action = "freeze" THEN "FROZEN" ELSE "TERMINATED"
  IN  /\ rules' = IF action = "throttle" THEN throttleRules(a) ELSE rules
      /\ frozenAgents' = frozenAgents \cup hit
      /\ agentStatus' = [x \in Agents |->
                           IF x \in hit /\ Exists(x) THEN status
                           ELSE agentStatus[x]]
      /\ lineage' = IF action = "terminate" /\ lineage[a].exists
                      THEN [lineage EXCEPT ![a].status = "terminated"]
                      ELSE lineage
      /\ dmsEvents' =
           IF Len(dmsEvents) < MaxEvents
             THEN Append(dmsEvents,
                         [agentId |-> a, triggerType |-> triggerType,
                          actionTaken |-> action,
                          cascadedTo |-> IF action \in {"freeze", "terminate"}
                                           THEN cascadedTo(a, config)
                                           ELSE <<>>])
             ELSE dmsEvents

\* POST /api/deadman/agents/:agentId/freeze -> DeadManSwitch.freeze
\* (part_008 190-194), owner only.
DmsFreeze(a) ==
  /\ Exists(a)
  /\ Len(dmsEvents) < MaxEvents
  /\ trigger(a, "manual", "freeze", dmsConfig[a])
  /\ resp' = NoResp
  /\ UNCHANGED <<balance, walletStatus, killSwitch, txs, auditLog,
                 dmsConfig, txWindows, spawnEvents, crossVars,
                 allows, now, proc, debited,
                 hbVars, aw>>

\* POST /api/deadman/agents/:agentId/terminate -> DeadManSwitch.manualKill
\* (part_008 183-188), owner only.
manualKill(a) ==
  /\ Exists(a)
  /\ Len(dmsEvents) < MaxEvents
  /\ trigger(a, "manual",
             IF dmsConfig[a].exists THEN dmsConfig[a].onManualTrigger
             ELSE "terminate",
             dmsConfig[a])
  /\ resp' = NoResp
  /\ UNCHANGED <<balance, walletStatus, killSwitch, txs, auditLog,
                 dmsConfig, txWindows, spawnEvents, crossVars,
                 allows, now, proc, debited,
                 hbVars, aw>>

\* POST /api/deadman/agents/:agentId/unfreeze -> DeadManSwitch.unfreeze
\* (part_008 196-222), owner only: the agent leaves the frozen set and a
\* FROZEN or SUSPENDED agent becomes ACTIVE.
DmsUnfreeze(a) ==
  /\ Exists(a)
  /\ Len(dmsEvents) < MaxEvents
  /\ frozenAgents' = frozenAgents \ {a}
  /\ agentStatus' = [agentStatus EXCEPT ![a] =
                       IF @ \in {"FROZEN", "SUSPENDED"} THEN "ACTIVE" ELSE @]
  /\ dmsEvents' = Append(dmsEvents,
                         [agentId |-> a, triggerType |-> "manual",
                          actionTaken |-> "unfreeze", cascadedTo |-> <<>>])
  /\ resp' = NoResp
  /\ UNCHANGED <<balance, walletStatus, rules, killSwitch, txs, auditLog,
                 dmsConfig, txWindows, lineage, spawnEvents, crossVars, allows, now, proc, debited,
                 hbVars, aw>>

\* ------------------------------------- DeadManSwitch.evaluateTransaction
\* POST /api/deadman/evaluate (stripe.js 350-361) for the seeded agent.
\* Lines 97-102: a frozen agent is blocked at once; otherwise the
\* configuration is awaited.
EvaluateStart(p) ==
  /\ Free(p)
  /\ Len(allows) + Cardinality({q \in Procs : proc[q].op = "evaluate"})
       < MaxAllows
  /\ LET me == [IdleProc EXCEPT !.op = "evaluate"]
     IN  IF Agent \in frozenAgents THEN Finish(p, me, "BLOCKED")
         ELSE Goto(p, me, "dms_config")
  /\ UNCHANGED <<balance, walletStatus, agentStatus, rules, killSwitch, txs,
                 auditLog, govVars, now, debited>>

\* window.filter((t) => t > oneMinAgo).length
recentCount(window, at) ==
  Cardinality({i \in 1..Len(window) : window[i] > at - MinuteLen})

\* Lines 103-124: without an enabled configuration the call is allowed; the
\* array of the agent is fetched from _txWindows and the entries of the last
\* minute are counted; at maxTxPerMinute or more the onAnomaly action is
\* triggered and the call is blocked.  Otherwise the vendor and spend
\* queries are awaited (no vendor is given and there is no spend history, so
\* neither check triggers).
EvaluateVelocity(p) ==
  /\ proc[p].pc = "dms_config"
  /\ LET config == dmsConfig[Agent]
     IN  IF ~config.exists \/ ~config.enabled
           THEN /\ Finish(p, proc[p], "ALLOWED")
                /\ UNCHANGED <<rules, frozenAgents, agentStatus, lineage, dmsEvents,
                 hbVars, aw>>
         ELSE IF recentCount(txWindows[Agent], now) >= config.maxTxPerMinute
           THEN /\ trigger(Agent, "velocity", config.onAnomaly, config)
                /\ Finish(p, proc[p], "BLOCKED")
         ELSE /\ Goto(p, [proc[p] EXCEPT !.shared = TRUE, !.at = now],
                      "dms_record")
              /\ UNCHANGED <<rules, frozenAgents, agentStatus, lineage, dmsEvents,
                 hbVars, aw>>
  /\ UNCHANGED <<balance, walletStatus, killSwitch, txs, auditLog,
                 dmsConfig, txWindows, spawnEvents, crossVars,
                 allows, now, debited,
                 hbVars, aw>>

\* Lines 170-176: the timestamp is pushed onto the array the call fetched and
\* _txWindows is set to a new, trimmed array.  A call in flight that fetched
\* the array before keeps the old array.
EvaluateRecord(p) ==
  /\ proc[p].pc = "dms_record"
  /\ LET old == IF proc[p].shared THEN txWindows[Agent] ELSE proc[p].window
         pushed == Append(old, proc[p].at)
         Recent(t) == t > proc[p].at - HourLen
     IN  /\ txWindows' = [txWindows EXCEPT ![Agent] = SelectSeq(pushed, Recent)]
         /\ proc' = [q \in Procs |->
                       IF q = p THEN IdleProc
                       ELSE IF proc[q].pc = "dms_record" /\ proc[q].shared
                         THEN [proc[q] EXCEPT
                                 !.shared = FALSE,
                                 !.window = IF proc[p].shared THEN pushed
                                            ELSE txWindows[Agent]]
                       ELSE proc[q]]
  /\ allows' = Append(allows, proc[p].at)
  /\ resp' = [op |-> "evaluate", tid |-> 0, res |-> "ALLOWED"]
  /\ UNCHANGED <<balance, walletStatus, agentStatus, rules, killSwitch, txs,
                 auditLog, frozenAgents, dmsConfig, dmsEvents, lineage,
                 spawnEvents, crossVars, now, debited,
                 hbVars, aw>>

\* ------------------------------------------------- heartbeat monitor
\* POST /api/deadman/agents/:agentId/heartbeat -> DeadManSwitch.heartbeat
\* (part_008 67-91): a frozen agent is told to cease; otherwise its entry in
\* _heartbeats is refreshed.
Heartbeat(a) ==
  /\ Exists(a)
  /\ a \notin frozenAgents
  /\ heartbeats' = hbSet(a, now)
  /\ resp' = NoResp
  /\ UNCHANGED <<balance, walletStatus, agentStatus, rules, killSwitch, txs,
                 auditLog, frozenAgents, dmsConfig, txWindows, dmsEvents,
                 lineage, spawnEvents, crossVars, allows, sweep, now, proc,
                 debited, aw>>

\* elapsed > maxGap with the gap doubled.
missedHeartbeatDoubleGap(elapsed, config) ==
  elapsed > 2 * config.heartbeatIntervalSeconds * config.missedHeartbeatThreshold

\* elapsed > maxGap with the comparison turned into >= .
missedHeartbeatAtThreshold(elapsed, config) ==
  elapsed >= config.heartbeatIntervalSeconds * config.missedHeartbeatThreshold

\* Lines 260-263: elapsed > heartbeatIntervalSeconds * missedHeartbeatThreshold.
missedHeartbeat(elapsed, config) ==
  elapsed > config.heartbeatIntervalSeconds * config.missedHeartbeatThreshold

\* The timer fires (lines 251-252): the callback takes the time once.  A
\* callback that is still running is left to finish first.
SweepStart ==
  /\ sweep.pc = "idle"
  /\ sweep' = [NoSweep EXCEPT !.pc = "next", !.now = now]
  /\ resp' = NoResp
  /\ UNCHANGED <<balance, walletStatus, agentStatus, rules, killSwitch, txs,
                 auditLog, frozenAgents, dmsConfig, txWindows, dmsEvents,
                 lineage, spawnEvents, crossVars, allows, heartbeats, now,
                 proc, debited, aw>>

\* Lines 254-257: the iterator of _heartbeats.entries() yields the next entry
\* (the map is read when the iterator advances); a frozen agent is skipped,
\* otherwise the configuration is awaited.
SweepNext ==
  /\ sweep.pc = "next"
  /\ IF sweep.pos >= Len(heartbeats)
       THEN sweep' = NoSweep
     ELSE LET e == heartbeats[sweep.pos + 1]
          IN  IF e.agentId \in frozenAgents
                THEN sweep' = [sweep EXCEPT !.pos = @ + 1]
                ELSE sweep' = [sweep EXCEPT !.pos = @ + 1, !.pc = "config",
                                            !.agentId = e.agentId,
                                            !.lastBeat = e.at]
  /\ resp' = NoResp
  /\ UNCHANGED <<balance, walletStatus, agentStatus, rules, killSwitch, txs,
                 auditLog, frozenAgents, dmsConfig, txWindows, dmsEvents,
                 lineage, spawnEvents, crossVars, allows, heartbeats, now,
                 proc, debited, aw>>

\* Lines 257-269: with an enabled configuration the elapsed time, from the
\* time the callback took and the entry it read, is compared with the gap;
\* beyond it the onMissedHeartbeat action is triggered.
SweepCheck ==
  /\ sweep.pc = "config"
  /\ LET a == sweep.agentId
         config == dmsConfig[a]
         elapsed == sweep.now - sweep.lastBeat
     IN  IF config.exists /\ config.enabled /\ missedHeartbeat(elapsed, config)
           THEN /\ Len(dmsEvents) < MaxEvents
                /\ trigger(a, "heartbeat", config.onMissedHeartbeat, config)
           ELSE UNCHANGED <<rules, frozenAgents, agentStatus, lineage, dmsEvents, aw>>
  /\ sweep' = [sweep EXCEPT !.pc = "next"]
  /\ resp' = NoResp
  /\ UNCHANGED <<balance, walletStatus, killSwitch, txs, auditLog,
                 dmsConfig, txWindows, spawnEvents, crossVars, allows,
                 heartbeats, now, proc, debited, aw>>

\* SpecHeartbeat: the owner creates and registers agents, agents send
\* heartbeats, the clock advances, and the monitor's callback runs with its
\* awaits open to all of them.
NextHeartbeat ==
  \/ \E a \in {"agent2"} : CreateAgent(a)
  \/ \E a \in {Agent, "agent2"}, c \in ConfigInputs :
       c.onAnomaly = "alert" /\ ~c.cascadeToChildren /\ registerAgent(a, c)
  \/ \E a \in {Agent, "agent2"} : Heartbeat(a)
  \/ DmsUnfreeze(Agent)
  \/ Tick
  \/ SweepStart
  \/ SweepNext
  \/ SweepCheck

SpecHeartbeat == Init /\ [][NextHeartbeat]_vars

\* SpecHeartbeatFair: agents are created and registered, send heartbeats or
\* stop sending them, and the clock advances.  setInterval (line 251) fires
\* the callback again and again and each of its awaits resolves, so the three
\* steps of the callback are weakly fair.
NextHeartbeatFair ==
  \/ \E a \in {"agent2"} : CreateAgent(a)
  \/ \E a \in {Agent, "agent2"}, c \in ConfigInputs :
       c.onAnomaly = "alert" /\ ~c.cascadeToChildren /\ registerAgent(a, c)
  \/ \E a \in {Agent, "agent2"} : Heartbeat(a)
  \/ Tick
  \/ SweepStart
  \/ SweepNext
  \/ SweepCheck

SpecHeartbeatFair ==
  /\ Init
  /\ [][NextHeartbeatFair]_vars
  /\ WF_vars(SweepStart)
  /\ WF_vars(SweepNext)
  /\ WF_vars(SweepCheck)

\* The configurations whose onMissedHeartbeat is throttle.
ThrottleConfigInputs ==
  {[c EXCEPT !.onMissedHeartbeat = "throttle"] : c \in ConfigInputs}

\* SpecThrottle: SpecHeartbeat's agents registered with onMissedHeartbeat =
\* throttle; an agent that is throttled stays out of the frozen set, so every
\* later firing of the timer finds it again.
NextThrottle ==
  \/ \E a \in {"agent2"} : CreateAgent(a)
  \/ \E a \in {Agent, "agent2"}, c \in ThrottleConfigInputs :
       c.onAnomaly = "alert" /\ ~c.cascadeToChildren /\ registerAgent(a, c)
  \/ \E a \in {Agent, "agent2"} : Heartbeat(a)
  \/ Tick
  \/ SweepStart
  \/ SweepNext
  \/ SweepCheck

SpecThrottle == Init /\ [][NextThrottle]_vars

\* ------------------------------- services/agentWallet.js (in memory)
\* The spend limits createAgent is given: those of the file's self-test
\* (lines 596-601) and the defaults of createAgent (lines 500-507).
SpendLimitInputs ==
  {[maxPerOrder |-> 2500, maxPerDay |-> 10000, maxPerWeek |-> 25000,
    maxPositionSize |-> 50],
   [maxPerOrder |-> 5000, maxPerDay |-> 20000, maxPerWeek |-> 50000,
    maxPositionSize |-> 100],
   [maxPerOrder |-> 20000, maxPerDay |-> 20000, maxPerWeek |-> 50000,
    maxPositionSize |-> 200]}

\* The prices (cents per contract) and counts of the orders an agent places.
OrderPrices == {30, 60}
OrderCounts == {40, 100, 200}

\* AgentWalletManager.createAgent (lines 487-521): an active agent and its
\* wallet with the given limits.
AwCreateAgent(limits) ==
  /\ ~aw.exists
  /\ aw' = [NoWallet EXCEPT !.exists = TRUE, !.isActive = TRUE,
                            !.spendLimit = limits]
  /\ resp' = NoResp
  /\ UNCHANGED <<balance, walletStatus, agentStatus, rules, killSwitch, txs,
                 auditLog, frozenAgents, dmsConfig, txWindows, dmsEvents,
                 lineage, spawnEvents, crossVars, allows, hbVars, now, proc,
                 debited>>

\* RulesEngine.evaluate (lines 109-134) over the two rules of
\* _setupDefaultRules (lines 463-485): by descending priority, the first rule
\* whose condition holds decides.
awEvaluate(orderValue) ==
  IF orderValue > DenyOrderValue THEN "deny"
  ELSE IF orderValue > ApprovalOrderValue THEN "require_approval"
  ELSE "allow"

\* AgentWallet._checkControls (lines 233-303) for CREATE_ORDER without ticker
\* lists: the reason of the refusal, Null when the order is allowed.  All
\* recorded spend lies within the last day.  `last` keeps the latest order:
\* its value and count, whether the agent was active with its kill switch
\* off, the error thrown, and whether the exchange client was called.
awCheckControls(orderValue, count) ==
  IF aw.killSwitchActive THEN "Kill switch is active"
  ELSE IF ~aw.isActive THEN "Agent is deactivated"
  ELSE IF orderValue > aw.spendLimit.maxPerOrder
    THEN "Order value exceeds maxPerOrder"
  ELSE IF aw.spent + orderValue > aw.spendLimit.maxPerDay
    THEN "Would exceed daily spend limit"
  ELSE IF aw.spent + orderValue > aw.spendLimit.maxPerWeek
    THEN "Would exceed weekly spend limit"
  ELSE IF count > aw.spendLimit.maxPositionSize
    THEN "Position size exceeds max"
  ELSE IF awEvaluate(orderValue) = "deny" THEN "Denied by rule"
  ELSE IF awEvaluate(orderValue) = "require_approval" THEN "Requires approval"
  ELSE Null

\* The events _executeAction logs before its await (lines 311-340), with
\* the one RulesEngine.evaluate logs for the rule that decided (lines
\* 118-127): ACTION_REQUESTED, then ACTION_DENIED after a refusal or
\* ACTION_ALLOWED otherwise.
awEventsAllowedFirst(id, reason) ==
  <<[action |-> id, eventType |-> "ACTION_REQUESTED"],
    [action |-> id, eventType |-> "ACTION_ALLOWED"]>>
  \o (IF reason # Null
        THEN <<[action |-> id, eventType |-> "ACTION_DENIED"]>>
        ELSE <<>>)

awEvents(id, reason) ==
  <<[action |-> id, eventType |-> "ACTION_REQUESTED"]>>
  \o (IF reason \in {"Denied by rule", "Requires approval"}
        THEN <<[action |-> id, eventType |-> "RULE_TRIGGERED"]>>
        ELSE <<>>)
  \o <<[action |-> id,
        eventType |-> IF reason # Null THEN "ACTION_DENIED"
                      ELSE "ACTION_ALLOWED"]>>

\* AgentWallet.createOrder -> _executeAction up to its await (lines 309-343):
\* the request is logged and checked; a refused order throws the reason, an
\* allowed one calls the exchange client.  `calls` holds the actions in the
\* order of their requests, `events` the events of the audit log that carry
\* an action.
AwCreateOrder(price, count) ==
  /\ aw.exists
  /\ Len(aw.calls) < MaxActions
  /\ LET orderValue == price * count
         reason == awCheckControls(orderValue, count)
         id == Len(aw.calls) + 1
     IN  IF reason # Null
           THEN aw' = [aw EXCEPT
                         !.last = [orderValue |-> orderValue, count |-> count,
                                   open |-> aw.isActive /\ ~aw.killSwitchActive,
                                   error |-> reason, sent |-> FALSE],
                         !.events = @ \o awEvents(id, reason),
                         !.calls = Append(@, [orderValue |-> orderValue,
                                              status |-> "denied",
                                              invoked |-> FALSE])]
           ELSE /\ aw.sent < MaxOrders
                /\ aw' = [aw EXCEPT
                            !.sent = @ + 1,
                            !.last = [orderValue |-> orderValue,
                                      count |-> count, open |-> TRUE,
                                      error |-> Null, sent |-> TRUE],
                            !.events = @ \o awEvents(id, reason),
                            !.calls = Append(@, [orderValue |-> orderValue,
                                                 status |-> "pending",
                                                 invoked |-> TRUE])]
  /\ resp' = NoResp
  /\ UNCHANGED <<balance, walletStatus, agentStatus, rules, killSwitch, txs,
                 auditLog, frozenAgents, dmsConfig, txWindows, dmsEvents,
                 lineage, spawnEvents, crossVars, allows, hbVars, now, proc,
                 debited>>

\* _executeAction after its await (lines 343-370): when the client answers,
\* the order's value is recorded as spend and ACTION_EXECUTED is logged; when
\* it throws, ACTION_FAILED is logged and the error is thrown on.
AwSettle(id, ok) ==
  /\ aw.exists
  /\ id \in 1..Len(aw.calls)
  /\ aw.calls[id].status = "pending"
  /\ aw' = [aw EXCEPT
              !.spent = IF ok THEN @ + aw.calls[id].orderValue ELSE @,
              !.calls[id].status = IF ok THEN "executed" ELSE "failed",
              !.last.error = IF ~ok /\ id = Len(aw.calls) THEN "client error"
                             ELSE @,
              !.events = Append(@, [action |-> id,
                                    eventType |-> IF ok THEN "ACTION_EXECUTED"
                                                  ELSE "ACTION_FAILED"])]
  /\ resp' = NoResp
  /\ UNCHANGED <<balance, walletStatus, agentStatus, rules, killSwitch, txs,
                 auditLog, frozenAgents, dmsConfig, txWindows, dmsEvents,
                 lineage, spawnEvents, crossVars, allows, hbVars, now, proc,
                 debited>>

\* AgentWallet.activateKillSwitch / deactivateKillSwitch (lines 193-223) and
\* AgentWalletManager.deactivateAgent / activateAgent (lines 531-543).
AwSwitch(field, value) ==
  /\ aw.exists
  /\ field \in {"killSwitchActive", "isActive"}
  /\ aw[field] # value
  /\ aw' = [aw EXCEPT ![field] = value]
  /\ resp' = NoResp
  /\ UNCHANGED <<balance, walletStatus, agentStatus, rules, killSwitch, txs,
                 auditLog, frozenAgents, dmsConfig, txWindows, dmsEvents,
                 lineage, spawnEvents, crossVars, allows, hbVars, now, proc,
                 debited>>

\* SpecOrders: one in-memory wallet, its orders, the answers of the exchange
\* client, which arrive at any time, and its switches.
NextOrders ==
  \/ \E limits \in SpendLimitInputs : AwCreateAgent(limits)
  \/ \E price \in OrderPrices, count \in OrderCounts :
       AwCreateOrder(price, count)
  \/ \E id \in 1..MaxActions, ok \in BOOLEAN : AwSettle(id, ok)
  \/ \E field \in {"killSwitchActive", "isActive"}, value \in BOOLEAN :
       AwSwitch(field, value)

SpecOrders == Init /\ [][NextOrders]_vars

\* SpecDms: calls of the transaction gate arrive at any time and interleave
\* at their awaits; the owner configures and unfreezes between them.
NextDms ==
  \/ \E p \in Procs : EvaluateStart(p)
  \/ \E p \in Procs : EvaluateVelocity(p)
  \/ \E p \in Procs : EvaluateRecord(p)
  \/ AllIdle /\ \E c \in ConfigInputs : registerAgent(Agent, c)
  \/ AllIdle /\ DmsUnfreeze(Agent)
  \/ AllIdle /\ Tick

SpecDms == Init /\ [][NextDms]_vars

\* SpecTerminate: SpecDms with the operator's terminate call.
NextTerminate ==
  \/ NextDms
  \/ AllIdle /\ manualKill(Agent)

SpecTerminate == Init /\ [][NextTerminate]_vars

\* SpecAgents: one request at a time; the dead man's switch controls and
\* pause / activate on the seeded agent, and the ledger.
NextAgents ==
  \/ AllIdle /\ \E p \in Procs : LedgerStart(p)
  \/ AllIdle /\ PauseAgent(Agent)
  \/ AllIdle /\ ActivateAgent(Agent)
  \/ AllIdle /\ DmsFreeze(Agent)
  \/ AllIdle /\ DmsUnfreeze(Agent)
  \/ \E p \in Procs : CheckKillSwitch(p)
  \/ \E p \in Procs : EvaluateRules(p)
  \/ \E p \in Procs : LedgerStep(p)

SpecAgents == Init /\ [][NextAgents]_vars

\* --------------------------------------------------------- spawn governor
\* SpawnGovernor._defaultSpawnPolicy; the two ratios are in percent (1.0).
defaultSpawnPolicy ==
  [isNull |-> FALSE, maxSpawnDepth |-> DefaultMaxSpawnDepth,
   maxChildren |-> DefaultMaxChildren, childrenCanSpawn |-> TRUE,
   maxSpendRatio |-> 100, maxTransactionRatio |-> 100]

\* SpawnGovernor._restrictSpawnPolicy
restrictSpawnPolicy(parentPolicy) ==
  [parentPolicy EXCEPT !.maxSpawnDepth = IF @ - 1 > 0 THEN @ - 1 ELSE 0]

\* An override the body of the spawn request does not give.
NoValue == 0 - 1

\* The third overrides argument of authorizeSpawn: the request's
\* policyOverrides and spawnPolicy objects spread into one (spawn.js 46-49),
\* so a maxSpendRatio the request gives (in percent) arrives here.
OverrideInputs ==
  {[dailyLimit |-> d, maxSpendPerTx |-> m, maxSpendRatio |-> NoValue] :
     d \in {NoValue, 1}, m \in {NoValue, 1}}

\* Requests that give a daily limit and a maxSpendRatio of one half.
RatioOverrideInputs ==
  {[dailyLimit |-> d, maxSpendPerTx |-> NoValue, maxSpendRatio |-> 50] :
     d \in {1, 2}}

Min(a, b) == IF a <= b THEN a ELSE b

\* The limit of the last rule of the type among the rules of the parent's
\* wallets, NoValue if there is none.  Only the seeded agent holds a wallet.
parentRuleLimit(parent, ruleType) ==
  LET S == IF parent = Agent
             THEN {i \in 1..Len(rules) : rules[i].ruleType = ruleType}
             ELSE {}
  IN  IF S = {} THEN NoValue
      ELSE rules[CHOOSE i \in S : \A j \in S : j <= i].limit

\* x * ratio for a ratio in percent; exact for the ratio 100.
TimesRatio(x, ratio) == (x * ratio) \div 100

\* SpawnGovernor._deriveChildPolicy: the parent's DAILY_LIMIT and
\* PER_TRANSACTION_LIMIT rules, or 1000 and 100 when the parent has no such
\* rule, times the ratios of the spawn policy of the parent's lineage row; an
\* override only lowers a limit.  The overrides' maxSpendRatio is not read
\* (and no request gives daily_limit_ratio).
deriveChildPolicy(parent, spawnPolicy, overrides) ==
  LET pd == parentRuleLimit(parent, "DAILY_LIMIT")
      pt == parentRuleLimit(parent, "PER_TRANSACTION_LIMIT")
      daily == TimesRatio(IF pd = NoValue \/ pd = 0 THEN DefaultDailyLimit
                          ELSE pd,
                          spawnPolicy.maxSpendRatio)
      perTx == TimesRatio(IF pt = NoValue \/ pt = 0 THEN DefaultPerTxLimit
                          ELSE pt,
                          spawnPolicy.maxTransactionRatio)
  IN  [dailyLimit |-> IF overrides.dailyLimit = NoValue THEN daily
                      ELSE Min(overrides.dailyLimit, daily),
       maxSpendPerTx |-> IF overrides.maxSpendPerTx = NoValue THEN perTx
                         ELSE Min(overrides.maxSpendPerTx, perTx)]

\* spawnVerdict without step 6, the lookup of the child's lineage row.
spawnVerdictNoDuplicateCheck(parent, child, lin) ==
  LET spawnPolicy == IF lin[parent].spawnPolicy.isNull THEN defaultSpawnPolicy
                     ELSE lin[parent].spawnPolicy
  IN  IF lin[parent].depth >= spawnPolicy.maxSpawnDepth THEN "MAX_DEPTH"
      ELSE IF Len(lin[parent].childrenIds) >= spawnPolicy.maxChildren
        THEN "MAX_CHILDREN"
      ELSE IF lin[parent].depth > 0 /\ ~spawnPolicy.childrenCanSpawn
        THEN "CANNOT_SPAWN"
      ELSE "AUTHORIZED"

\* The answer of authorizeSpawn for the lineage table `lin` (the table after
\* step 2), following the checks 1 and 3 to 6 in their order.
spawnVerdict(parent, child, lin) ==
  LET spawnPolicy == IF lin[parent].spawnPolicy.isNull THEN defaultSpawnPolicy
                     ELSE lin[parent].spawnPolicy
  IN  IF lin[parent].depth >= spawnPolicy.maxSpawnDepth THEN "MAX_DEPTH"
      ELSE IF Len(lin[parent].childrenIds) >= spawnPolicy.maxChildren
        THEN "MAX_CHILDREN"
      ELSE IF lin[parent].depth > 0 /\ ~spawnPolicy.childrenCanSpawn
        THEN "CANNOT_SPAWN"
      ELSE IF lin[child].exists THEN "DUPLICATE_LINEAGE"
      ELSE "AUTHORIZED"

\* POST /api/spawn/:agentId with a childAgentId (spawn.js 23-59) and
\* SpawnGovernor.authorizeSpawn (spawnGovernor.js 25-140).  The lineage row
\* of the parent is created at step 2 if it is missing, whatever the answer.
authorizeSpawn(parent, child, overrides) ==
  /\ Exists(parent) /\ Exists(child)
  /\ IF agentStatus[parent] \in {"FROZEN", "TERMINATED", "KILLED"}
       THEN /\ resp' = [op |-> "spawn", tid |-> 0, res |-> "PARENT_STOPPED"]
            /\ UNCHANGED <<lineage, spawnEvents,
                 hbVars, aw>>
       ELSE LET lin == IF lineage[parent].exists THEN lineage
                       ELSE [lineage EXCEPT ![parent] =
                               [NoLineage EXCEPT !.exists = TRUE,
                                                 !.rootId = parent,
                                                 !.status = "active"]]
                verdict == spawnVerdict(parent, child, lin)
                spawnPolicy == IF lin[parent].spawnPolicy.isNull
                                 THEN defaultSpawnPolicy
                                 ELSE lin[parent].spawnPolicy
            IN  /\ resp' = [op |-> "spawn", tid |-> 0, res |-> verdict]
                /\ IF verdict # "AUTHORIZED"
                     THEN /\ lineage' = lin
                          /\ UNCHANGED spawnEvents
                     ELSE /\ lineage' =
                               [lin EXCEPT
                                  ![child] =
                                     [exists |-> TRUE, parentId |-> parent,
                                      rootId |-> lin[parent].rootId,
                                      depth |-> lin[parent].depth + 1,
                                      childrenIds |-> <<>>,
                                      status |-> "active",
                                      spawnPolicy |->
                                        restrictSpawnPolicy(spawnPolicy)],
                                  ![parent].childrenIds = Append(@, child)]
                          /\ spawnEvents' =
                               Append(spawnEvents,
                                      [parentId |-> parent, childId |-> child,
                                       depth |-> lin[parent].depth + 1,
                                       inheritedPolicy |->
                                         deriveChildPolicy(parent, spawnPolicy,
                                                           overrides)])
  /\ UNCHANGED <<balance, walletStatus, agentStatus, rules, killSwitch, txs,
                 auditLog, frozenAgents, dmsConfig, txWindows, dmsEvents,
                 crossVars, allows, now, proc, debited,
                 hbVars, aw>>

\* SpecRatio: one request at a time; agents are created, and spawned by
\* requests that give a daily limit and a maxSpendRatio.
NextRatio ==
  \/ \E a \in Agents : CreateAgent(a)
  \/ \E a, b \in Agents, o \in RatioOverrideInputs : authorizeSpawn(a, b, o)
  \/ PauseAgent(Agent)
  \/ ActivateAgent(Agent)
  \/ Tick

SpecRatio == Init /\ [][NextRatio]_vars

\* ------------------------------- authorizeSpawn, one step per database call
\* Step 1 (lines 26-41): the parent is read and its status is checked.
SpawnStart(p, parent, child) ==
  /\ Free(p)
  /\ Exists(parent) /\ Exists(child)
  /\ LET me == [IdleProc EXCEPT !.op = "spawn",
                                !.spawn = [NoSpawnLocals EXCEPT
                                             !.parent = parent,
                                             !.child = child]]
     IN  IF agentStatus[parent] \in {"FROZEN", "TERMINATED", "KILLED"}
           THEN Finish(p, me, "PARENT_STOPPED")
           ELSE Goto(p, me, "sp_parent")
  /\ UNCHANGED <<balance, walletStatus, agentStatus, rules, killSwitch, txs,
                 auditLog, govVars, now, debited>>

\* Steps 2 to 5 (lines 43-86): the parent's lineage row is read, or created
\* as a root when it is missing, and the depth, children and childrenCanSpawn
\* checks run on the row that was read.
SpawnParentLineage(p) ==
  /\ proc[p].pc = "sp_parent"
  /\ LET parent == proc[p].spawn.parent
         lin == IF lineage[parent].exists THEN lineage
                ELSE [lineage EXCEPT ![parent] =
                        [NoLineage EXCEPT !.exists = TRUE,
                                          !.rootId = parent,
                                          !.status = "active"]]
         verdict == spawnVerdictNoDuplicateCheck(parent, proc[p].spawn.child,
                                                 lin)
         me == [proc[p] EXCEPT !.spawn.depth = lin[parent].depth,
                               !.spawn.rootId = lin[parent].rootId]
     IN  /\ lineage' = lin
         /\ IF verdict # "AUTHORIZED" THEN Finish(p, me, verdict)
            ELSE Goto(p, me, "sp_child")
  /\ UNCHANGED <<balance, walletStatus, agentStatus, rules, killSwitch, txs,
                 auditLog, frozenAgents, dmsConfig, txWindows, dmsEvents,
                 spawnEvents, crossVars, allows, hbVars, aw, now, debited>>

\* Step 6 (lines 88-94): the child must not have a lineage row yet.
SpawnChildLookup(p) ==
  /\ proc[p].pc = "sp_child"
  /\ IF lineage[proc[p].spawn.child].exists
       THEN Finish(p, proc[p], "DUPLICATE_LINEAGE")
       ELSE Goto(p, proc[p], "sp_create")
  /\ UNCHANGED <<balance, walletStatus, agentStatus, rules, killSwitch, txs,
                 auditLog, govVars, now, debited>>

\* Step 8 (lines 99-110): the child's row is created from the parent's row as
\* it was read at step 2; agentId is the primary key, so a second insert for
\* the same child throws.
SpawnCreateChild(p) ==
  /\ proc[p].pc = "sp_create"
  /\ LET parent == proc[p].spawn.parent
         child == proc[p].spawn.child
         spawnPolicy == IF lineage[parent].spawnPolicy.isNull
                          THEN defaultSpawnPolicy
                          ELSE lineage[parent].spawnPolicy
     IN  IF lineage[child].exists
           THEN /\ Finish(p, proc[p], "500")
                /\ UNCHANGED lineage
           ELSE /\ lineage' =
                     [lineage EXCEPT ![child] =
                        [exists |-> TRUE, parentId |-> parent,
                         rootId |-> proc[p].spawn.rootId,
                         depth |-> proc[p].spawn.depth + 1,
                         childrenIds |-> <<>>, status |-> "active",
                         spawnPolicy |-> restrictSpawnPolicy(spawnPolicy)]]
                /\ Goto(p, proc[p], "sp_push")
  /\ UNCHANGED <<balance, walletStatus, agentStatus, rules, killSwitch, txs,
                 auditLog, frozenAgents, dmsConfig, txWindows, dmsEvents,
                 spawnEvents, crossVars, allows, hbVars, aw, now, debited>>

\* Step 9 (lines 112-116): the child is pushed onto the parent's childrenIds.
SpawnPushChild(p) ==
  /\ proc[p].pc = "sp_push"
  /\ lineage' = [lineage EXCEPT ![proc[p].spawn.parent].childrenIds =
                                   Append(@, proc[p].spawn.child)]
  /\ Goto(p, proc[p], "sp_event")
  /\ UNCHANGED <<balance, walletStatus, agentStatus, rules, killSwitch, txs,
                 auditLog, frozenAgents, dmsConfig, txWindows, dmsEvents,
                 spawnEvents, crossVars, allows, hbVars, aw, now, debited>>

\* Step 10 (lines 118-127): the SpawnEvent row, then the answer.  No request
\* of this specification gives overrides.
SpawnRecord(p) ==
  /\ proc[p].pc = "sp_event"
  /\ LET parent == proc[p].spawn.parent
     IN  spawnEvents' =
           Append(spawnEvents,
                  [parentId |-> parent, childId |-> proc[p].spawn.child,
                   depth |-> proc[p].spawn.depth + 1,
                   inheritedPolicy |->
                     deriveChildPolicy(parent, defaultSpawnPolicy,
                                       [dailyLimit |-> NoValue,
                                        maxSpendPerTx |-> NoValue,
                                        maxSpendRatio |-> NoValue])])
  /\ Finish(p, proc[p], "AUTHORIZED")
  /\ UNCHANGED <<balance, walletStatus, agentStatus, rules, killSwitch, txs,
                 auditLog, frozenAgents, dmsConfig, txWindows, dmsEvents,
                 lineage, crossVars, allows, hbVars, aw, now, debited>>

\* SpecSpawn: spawn requests arrive at any time and interleave at their
\* awaits; the owner creates the agents they name.
NextSpawn ==
  \/ \E a \in Agents : CreateAgent(a)
  \/ \E p \in Procs, a, b \in Agents : SpawnStart(p, a, b)
  \/ \E p \in Procs : SpawnParentLineage(p)
  \/ \E p \in Procs : SpawnChildLookup(p)
  \/ \E p \in Procs : SpawnCreateChild(p)
  \/ \E p \in Procs : SpawnPushChild(p)
  \/ \E p \in Procs : SpawnRecord(p)

SpecSpawn == Init /\ [][NextSpawn]_vars

\* SpecLineage: one request at a time; agents are created and spawned, and
\* the dead man's switch of the seeded agent is configured, frozen and
\* unfrozen.
NextLineage ==
  \/ \E a \in Agents : CreateAgent(a)
  \/ \E a, b \in Agents, o \in OverrideInputs : authorizeSpawn(a, b, o)
  \/ \E c \in ConfigInputs : c.onAnomaly = "alert" /\ registerAgent(Agent, c)
  \/ DmsFreeze(Agent)
  \/ DmsUnfreeze(Agent)

SpecLineage == Init /\ [][NextLineage]_vars

\* ---------------------------------------------------- cross-agent governor
PolicyIds == 1..Len(crossPolicies)

\* The enabled policies of the source: the rows the three lookups of
\* _resolvePolicy search (where: { sourceAgentId, ..., enabled: true }).
EnabledPolicies(sourceId) ==
  {i \in PolicyIds : crossPolicies[i].sourceAgentId = sourceId
                     /\ crossPolicies[i].enabled}

\* The groups the target belongs to.
targetGroups(targetId) ==
  {g \in GroupNames : agentGroups[g].exists /\ targetId \in agentGroups[g].agentIds}

\* _resolvePolicy with no `enabled` filter in its three lookups.
resolvePolicyIgnoringEnabled(sourceId, targetId) ==
  LET all == {i \in PolicyIds : crossPolicies[i].sourceAgentId = sourceId}
      exact == {i \in all : crossPolicies[i].targetAgentId = targetId}
      group == {i \in all : crossPolicies[i].targetAgentGroup
                              \in targetGroups(targetId)}
      wildcard == {i \in all : /\ crossPolicies[i].targetAgentId = Null
                               /\ crossPolicies[i].targetAgentGroup = Null}
  IN  IF exact # {} THEN exact ELSE IF group # {} THEN group ELSE wildcard

\* CrossAgentGovernor._resolvePolicy: the policies the lookups may return
\* (findFirst returns any matching row), exact match first, then the groups
\* of the target, then the wildcard; the empty set stands for null.
resolvePolicy(sourceId, targetId) ==
  LET found == EnabledPolicies(sourceId)
      exact == {i \in found : crossPolicies[i].targetAgentId = targetId}
      group == {i \in found : crossPolicies[i].targetAgentGroup
                                \in targetGroups(targetId)}
      wildcard == {i \in found : /\ crossPolicies[i].targetAgentId = Null
                                 /\ crossPolicies[i].targetAgentGroup = Null}
  IN  IF exact # {} THEN exact ELSE IF group # {} THEN group ELSE wildcard

\* The targets an owner gives a policy: one agent, one group, or neither.
PolicyTargets ==
  {[targetAgentId |-> "agent2", targetAgentGroup |-> Null],
   [targetAgentId |-> Null, targetAgentGroup |-> "partners"],
   [targetAgentId |-> Null, targetAgentGroup |-> Null]}

\* POST /api/cross-agent/policies (transactions.js 366-411) and
\* CrossAgentGovernor.createPolicy: the source agent must exist.  The
\* settlement mode is left at its default; the minimum trust score is given
\* in percent.
createPolicy(sourceId, target, mutual, minTrust) ==
  /\ Exists(sourceId)
  /\ Len(crossPolicies) < MaxPolicies
  /\ crossPolicies' =
       Append(crossPolicies,
              [sourceAgentId |-> sourceId,
               targetAgentId |-> target.targetAgentId,
               targetAgentGroup |-> target.targetAgentGroup,
               maxPerTransaction |-> CrossPerTx,
               maxDailyToTarget |-> CrossDailyToTarget,
               maxDailyAllAgents |-> CrossDailyAll,
               requireHumanApprovalAbove |-> CrossHumanAbove,
               allowedPaymentTypes |-> {"compute", "data", "api_call", "service"},
               requireMutualPolicy |-> mutual,
               settlementMode |-> "immediate",
               minCounterpartyTrustScore |-> minTrust,
               enabled |-> TRUE])
  /\ resp' = NoResp
  /\ UNCHANGED <<balance, walletStatus, agentStatus, rules, killSwitch, txs,
                 auditLog, frozenAgents, dmsConfig, txWindows, dmsEvents,
                 lineage, spawnEvents, crossTxs, agentGroups, allows, now,
                 proc, debited,
                 hbVars, aw>>

\* DELETE /api/cross-agent/policies/:id -> deletePolicy: enabled = false.
deletePolicy(id) ==
  /\ id \in PolicyIds
  /\ crossPolicies[id].enabled
  /\ crossPolicies' = [crossPolicies EXCEPT ![id].enabled = FALSE]
  /\ resp' = NoResp
  /\ UNCHANGED <<balance, walletStatus, agentStatus, rules, killSwitch, txs,
                 auditLog, frozenAgents, dmsConfig, txWindows, dmsEvents,
                 lineage, spawnEvents, crossTxs, agentGroups, allows, now,
                 proc, debited,
                 hbVars, aw>>

\* POST /api/cross-agent/groups (transactions.js 552-561).
createGroup(g, agentIds) ==
  /\ ~agentGroups[g].exists
  /\ agentGroups' = [agentGroups EXCEPT ![g] = [exists |-> TRUE,
                                                agentIds |-> agentIds]]
  /\ resp' = NoResp
  /\ UNCHANGED <<balance, walletStatus, agentStatus, rules, killSwitch, txs,
                 auditLog, frozenAgents, dmsConfig, txWindows, dmsEvents,
                 lineage, spawnEvents, crossPolicies, crossTxs, allows, now,
                 proc, debited,
                 hbVars, aw>>

\* PATCH /api/cross-agent/groups/:id (transactions.js 578-589).
patchGroup(g, addAgentIds, removeAgentIds) ==
  /\ agentGroups[g].exists
  /\ agentGroups' = [agentGroups EXCEPT ![g].agentIds =
                       (@ \ removeAgentIds) \cup addAgentIds]
  /\ agentGroups' # agentGroups
  /\ resp' = NoResp
  /\ UNCHANGED <<balance, walletStatus, agentStatus, rules, killSwitch, txs,
                 auditLog, frozenAgents, dmsConfig, txWindows, dmsEvents,
                 lineage, spawnEvents, crossPolicies, crossTxs, allows, now,
                 proc, debited,
                 hbVars, aw>>

\* The authorized rows of the last 24 hours from the source.
AuthorizedFrom(sourceId) ==
  {i \in 1..Len(crossTxs) : /\ crossTxs[i].sourceAgentId = sourceId
                            /\ crossTxs[i].createdAt >= now - DayLen
                            /\ crossTxs[i].authorized}

\* _checkCounterpartyTrust: no minimum passes; otherwise the share of
\* settled rows among all rows naming the target, 0 without rows, must reach
\* the minimum (in percent).
checkCounterpartyTrust(policy, targetId) ==
  LET asTarget == {i \in 1..Len(crossTxs) : crossTxs[i].targetAgentId = targetId}
      settled == {i \in asTarget : crossTxs[i].settlementStatus = "settled"}
  IN  \/ policy.minCounterpartyTrustScore <= 0
      \/ /\ asTarget # {}
         /\ 100 * Cardinality(settled)
              >= policy.minCounterpartyTrustScore * Cardinality(asTarget)

\* crossChecksPass without the two daily limits.
crossChecksPassWithoutDailyLimits(policy, sourceId, targetId, amount, paymentType) ==
  /\ paymentType \in policy.allowedPaymentTypes
  /\ amount <= policy.maxPerTransaction
  /\ checkCounterpartyTrust(policy, targetId)

\* The five checks of step 3.
crossChecksPass(policy, sourceId, targetId, amount, paymentType) ==
  LET toTarget == {i \in AuthorizedFrom(sourceId) :
                     crossTxs[i].targetAgentId = targetId}
  IN  /\ paymentType \in policy.allowedPaymentTypes
      /\ amount <= policy.maxPerTransaction
      /\ SumIdx(crossTxs, toTarget) + amount <= policy.maxDailyToTarget
      /\ SumIdx(crossTxs, AuthorizedFrom(sourceId)) + amount
           <= policy.maxDailyAllAgents
      /\ checkCounterpartyTrust(policy, targetId)

\* CrossAgentGovernor._recordTransaction
recordTransaction(src, tgt, amount, policyId, authorized, method, human, mode) ==
  crossTxs' = Append(crossTxs,
                     [sourceAgentId |-> src, targetAgentId |-> tgt,
                      amount |-> amount, policyId |-> policyId,
                      authorized |-> authorized,
                      authorizationMethod |-> method,
                      settlementStatus |->
                        IF authorized
                          THEN IF mode = "immediate" THEN "settled"
                               ELSE "pending"
                          ELSE "failed",
                      requiresHuman |-> human, createdAt |-> now])

\* POST /api/cross-agent/authorize -> CrossAgentGovernor.authorizeTransaction
\* (spawnGovernor.js 329-427); policyId 0 stands for null.
authorizeTransaction(sourceId, targetId, amount, paymentType) ==
  /\ Len(crossTxs) < MaxCrossTx
  /\ IF resolvePolicy(sourceId, targetId) = {}
       THEN /\ recordTransaction(sourceId, targetId, amount, 0, FALSE, "auto",
                                 TRUE, Null)
            /\ resp' = [op |-> "cross", tid |-> Len(crossTxs) + 1,
                        res |-> "NO_POLICY"]
       ELSE \E id \in resolvePolicy(sourceId, targetId) :
              LET policy == crossPolicies[id]
              IN  IF /\ policy.requireMutualPolicy
                     /\ resolvePolicy(targetId, sourceId) = {}
                    THEN /\ UNCHANGED crossTxs
                         /\ resp' = [op |-> "cross", tid |-> 0,
                                     res |-> "NO_RECIPROCAL_POLICY"]
                  ELSE IF ~crossChecksPass(policy, sourceId, targetId, amount,
                                           paymentType)
                    THEN /\ recordTransaction(sourceId, targetId, amount, id,
                                              FALSE, "auto", FALSE, Null)
                         /\ resp' = [op |-> "cross", tid |-> 0,
                                     res |-> "CHECK_FAILED"]
                  ELSE IF amount > policy.requireHumanApprovalAbove
                    THEN /\ recordTransaction(sourceId, targetId, amount, id,
                                              FALSE, "escalated", TRUE, Null)
                         /\ resp' = [op |-> "cross", tid |-> Len(crossTxs) + 1,
                                     res |-> "REQUIRES_HUMAN"]
                  ELSE /\ recordTransaction(sourceId, targetId, amount, id,
                                            TRUE, "auto", FALSE,
                                            policy.settlementMode)
                       /\ resp' = [op |-> "cross", tid |-> Len(crossTxs) + 1,
                                   res |-> "AUTHORIZED"]
  /\ UNCHANGED <<balance, walletStatus, agentStatus, rules, killSwitch, txs,
                 auditLog, frozenAgents, dmsConfig, txWindows, dmsEvents,
                 lineage, spawnEvents, crossPolicies, agentGroups, allows, now,
                 proc, debited,
                 hbVars, aw>>

\* POST /api/cross-agent/transactions/:id/approve -> approveTransaction
\* (spawnGovernor.js 493-510): a held row becomes authorized.
approveCrossTransaction(t) ==
  /\ t \in 1..Len(crossTxs)
  /\ crossTxs[t].requiresHuman
  /\ crossTxs' = [crossTxs EXCEPT ![t].authorized = TRUE,
                                  ![t].authorizationMethod = "human_approved",
                                  ![t].requiresHuman = FALSE]
  /\ resp' = NoResp
  /\ UNCHANGED <<balance, walletStatus, agentStatus, rules, killSwitch, txs,
                 auditLog, frozenAgents, dmsConfig, txWindows, dmsEvents,
                 lineage, spawnEvents, crossPolicies, agentGroups, allows, now,
                 proc, debited,
                 hbVars, aw>>

\* The payment types a request names; only the first is allowed by the
\* policies' default list.
PaymentTypes == {"compute", "transfer"}

\* SpecChecks: one request at a time; policies naming the second agent or no
\* target, with and without a reciprocity requirement and a minimum trust
\* score of one half; requests of both payment types, approvals, the clock.
NextChecks ==
  \/ CreateAgent("agent2")
  \/ \E a \in {Agent, "agent2"}, t \in PolicyTargets, m \in BOOLEAN,
        tr \in {0, 50} :
       t.targetAgentGroup = Null /\ createPolicy(a, t, m, tr)
  \/ \E a \in Amounts, pt \in PaymentTypes :
       authorizeTransaction(Agent, "agent2", a, pt)
  \/ \E t \in 1..MaxCrossTx : approveCrossTransaction(t)
  \/ Tick

SpecChecks == Init /\ [][NextChecks]_vars

\* SpecCross: one request at a time; the owner creates a second agent,
\* policies and a group, disables policies, and the seeded agent asks to pay
\* the second agent.
NextCross ==
  \/ CreateAgent("agent2")
  \/ \E a \in {Agent, "agent2"}, t \in PolicyTargets, m \in BOOLEAN :
       createPolicy(a, t, m, 0)
  \/ \E id \in 1..MaxPolicies : deletePolicy(id)
  \/ \E g \in GroupNames, ids \in SUBSET {"agent2"} : createGroup(g, ids)
  \/ \E g \in GroupNames, add, rem \in SUBSET {"agent2"} : patchGroup(g, add, rem)
  \/ \E a \in Amounts : authorizeTransaction(Agent, "agent2", a, "compute")
  \/ \E t \in 1..MaxCrossTx : approveCrossTransaction(t)

SpecCross == Init /\ [][NextCross]_vars

\* SpecStatus: one request at a time; every operation that writes the
\* status of the seeded agent.
NextStatus ==
  \/ \E st \in AgentStatuses : PatchAgent(Agent, st)
  \/ PauseAgent(Agent)
  \/ ActivateAgent(Agent)
  \/ \E c \in ConfigInputs : registerAgent(Agent, c)
  \/ DmsFreeze(Agent)
  \/ manualKill(Agent)
  \/ DmsUnfreeze(Agent)
  \/ EmergencyStop

SpecStatus == Init /\ [][NextStatus]_vars

\* ------------------------------------------------------------ properties
CompletedRows == {t \in TxIds : txs[t].status = "COMPLETED"}

\* Rows a submit completed by itself: no approval was needed for the amount.
AutoCompleted ==
  {t \in CompletedRows : txs[t].origin = "submit"
                         /\ ~checkRequiresApproval(txs[t].amount,
                                                   SeedApprovalThreshold)}

MinAmount(S) == CHOOSE a \in {txs[t].amount : t \in S} :
                  \A t \in S : a <= txs[t].amount

\* C1: submits that race on the wallet (no deposit, no rule blocking them)
\* complete at most floor(balance / min(amount)) times: the rows that submits
\* completed number at most SeedBalance \div their smallest amount.
C1_SubmitsWithinBalance ==
  AutoCompleted # {} =>
    Cardinality(AutoCompleted) <= SeedBalance \div MinAmount(AutoCompleted)

\* C2: in every reachable state the balance of the wallet is at least 0.
C2_BalanceNonNegative == balance >= 0

\* C3: when no request is in flight (and no payout was made), the balance is
\* the funds received (the seed balance and the completed deposits) minus the
\* amounts of the COMPLETED rows that are not deposits.
C3_BalanceIsLedger ==
  (AllIdle /\ \A t \in TxIds : txs[t].origin # "payout") =>
    balance = SeedBalance
              + SumIdx(txs, {t \in CompletedRows : txs[t].category = "deposit"})
              - SumIdx(txs, {t \in CompletedRows : txs[t].category # "deposit"})

\* C4: every step that lowers the balance is taken while the wallet is ACTIVE.
C4_DebitOnlyActive == [][balance' < balance => walletStatus = "ACTIVE"]_vars

\* C5: a submit that arrives while the kill switch is latched is answered
\* KILL_SWITCHED, and a submit whose evaluation reported the kill switch (it
\* fired the switch or met it latched) is persisted with status KILL_SWITCHED.
C5_LatchedSubmitKillSwitched ==
  [][/\ (/\ KsLatched /\ AllIdle
         /\ resp' # NoResp /\ resp'.op = "submit" /\ resp'.res # "403")
        => resp'.res = "KILL_SWITCHED"
     /\ \A p \in Procs :
          (proc[p].op = "submit" /\ proc[p].killSwitched
           /\ Len(txs') = Len(txs) + 1)
            => txs'[Len(txs')].status = "KILL_SWITCHED"]_vars

\* C6: in every reachable state a triggered kill switch that was not reset
\* has its wallet in status KILL_SWITCHED.
C6_TriggeredImpliesKillSwitched == KsLatched => walletStatus = "KILL_SWITCHED"

\* C7: in every reachable state a row the wallet was debited for is COMPLETED.
C7_DebitedIsCompleted ==
  \A t \in TxIds : debited[t] > 0 => txs[t].status = "COMPLETED"

\* C8: every row has completedAt set iff its status is COMPLETED, and then
\* createdAt <= completedAt.
C8_CompletedAtIffCompleted ==
  \A t \in TxIds :
    /\ (txs[t].completedAt # NoTime) <=> (txs[t].status = "COMPLETED")
    /\ txs[t].completedAt # NoTime => txs[t].createdAt <= txs[t].completedAt

\* C9: when no request is in flight, the wallet was never debited for a row
\* whose status is REJECTED or KILL_SWITCHED.
C9_RejectedNeverDebited ==
  AllIdle =>
    \A t \in TxIds :
      txs[t].status \in {"REJECTED", "KILL_SWITCHED"} => debited[t] = 0

\* C10: an approve by the owner that arrives for a COMPLETED row is answered
\* with the state-conflict error in that step and changes neither the
\* balance nor any row, and debits nothing.
C10_ApproveCompletedConflicts ==
  [][\A p \in Procs, t \in TxIds :
       (txs[t].status = "COMPLETED" /\ ApproveStart(p, "owner", t))
         => /\ resp' = [op |-> "approve", tid |-> t,
                        res |-> "400_NOT_AWAITING_APPROVAL"]
            /\ balance' = balance
            /\ txs' = txs
            /\ debited' = debited]_vars

\* C10 happens: the row was completed through an approval (it was debited
\* once) and a second approve got the state-conflict error.
C10_Witness ==
  /\ resp.op = "approve" /\ resp.res = "400_NOT_AWAITING_APPROVAL"
  /\ resp.tid \in TxIds
  /\ txs[resp.tid].status = "COMPLETED"
  /\ checkRequiresApproval(txs[resp.tid].amount, SeedApprovalThreshold)
  /\ debited[resp.tid] = 1

\* AuditLog rows that reference transaction t.
AuditRowsOf(t) ==
  {i \in 1..Len(auditLog) : auditLog[i].resourceId = <<"transaction", t>>}

\* C11: when no request is in flight, every row a submit created has exactly
\* one AuditLog row that references it.
C11_SubmitAudited ==
  AllIdle =>
    \A t \in TxIds :
      txs[t].origin = "submit" => Cardinality(AuditRowsOf(t)) = 1

\* Completed rows created at or after since whose category is not deposit.
SpendRowsSince(since) ==
  {i \in TxIds : /\ txs[i].status = "COMPLETED"
                 /\ txs[i].createdAt >= since
                 /\ txs[i].category /= "deposit"}

\* C20: the spend aggregate used by the limit checks is the sum of the
\* completed rows created at or after the window start whose category is not
\* deposit; a deposit is never counted as spend.
C20_SpendExcludesDeposits ==
  \A since \in 0..MaxTime :
    getSpendSince(since) = SumIdx(txs, SpendRowsSince(since))

\* C12: while the agent is in the dead man's switch's frozen set, no submit
\* that arrived after the freeze takes its row to COMPLETED, whether the
\* agent key or the owner key sent it (requests are served one at a time, so
\* a submit in flight while the agent is frozen arrived after the freeze).
C12_FrozenSubmitNeverCompletes ==
  [][\A p \in Procs :
       (Agent \in frozenAgents /\ proc[p].op = "submit"
          /\ proc[p].tid \in TxIds)
         => ~(/\ txs[proc[p].tid].status # "COMPLETED"
              /\ txs'[proc[p].tid].status = "COMPLETED")]_vars

\* The calls the velocity gate allowed in the minute that ends now.
AllowedInWindow == {i \in 1..Len(allows) : allows[i] > now - MinuteLen}

\* C13: with maxTxPerMinute = MaxPerMinute configured, at most MaxPerMinute
\* calls of the gate in the same window are answered allow, for every
\* interleaving of the calls.
C13_VelocityBound == Cardinality(AllowedInWindow) <= MaxPerMinute

\* C15: once the status of the agent is TERMINATED or KILLED, no operation
\* changes it again.
C15_TerminalStatusStays ==
  [][agentStatus[Agent] \in {"TERMINATED", "KILLED"}
       => agentStatus'[Agent] = agentStatus[Agent]]_vars

\* The agents below a in the lineage tree: its children, their children, ...
RECURSIVE Descendants(_)
Descendants(a) ==
  LET kids == SeqToSet(lineage[a].childrenIds)
  IN  kids \cup UNION {Descendants(k) : k \in kids}

\* The step appends a DeadManSwitchEvent row for a freeze of an agent whose
\* configuration says cascadeToChildren.
CascadingFreezeStep ==
  /\ Len(dmsEvents') = Len(dmsEvents) + 1
  /\ dmsEvents'[Len(dmsEvents')].actionTaken = "freeze"
  /\ dmsConfig[dmsEvents'[Len(dmsEvents')].agentId].exists
  /\ dmsConfig[dmsEvents'[Len(dmsEvents')].agentId].cascadeToChildren

\* C14: a freeze of an agent with cascadeToChildren puts every descendant of
\* the agent (children, grandchildren and deeper) into the frozen set with
\* the status FROZEN, and the event's cascadedTo lists all of them.
C14_FreezeCascadesToDescendants ==
  [][CascadingFreezeStep =>
       LET e == dmsEvents'[Len(dmsEvents')]
       IN  \A d \in Descendants(e.agentId) :
             /\ d \in frozenAgents'
             /\ agentStatus'[d] = "FROZEN"
             /\ d \in SeqToSet(e.cascadedTo)]_vars

\* The SpawnEvent rows that made a a child.
SpawnedAs(a) == {i \in 1..Len(spawnEvents) : spawnEvents[i].childId = a}

\* An agent has effective limits if it was spawned (its inherited policy) or
\* holds a wallet with the two limit rules (the seeded agent).
HasEffectiveLimits(a) ==
  \/ SpawnedAs(a) # {}
  \/ /\ parentRuleLimit(a, "DAILY_LIMIT") # NoValue
     /\ parentRuleLimit(a, "PER_TRANSACTION_LIMIT") # NoValue

EffectiveLimits(a) ==
  IF SpawnedAs(a) # {}
    THEN spawnEvents[CHOOSE i \in SpawnedAs(a) : TRUE].inheritedPolicy
    ELSE [dailyLimit |-> parentRuleLimit(a, "DAILY_LIMIT"),
          maxSpendPerTx |-> parentRuleLimit(a, "PER_TRANSACTION_LIMIT")]

\* C16: for every spawned child, at any depth, each numeric limit of the
\* inherited policy is at most the corresponding effective limit of its
\* parent, also when the parent is itself a child without spend rules.
C16_ChildLimitsWithinParent ==
  \A i \in 1..Len(spawnEvents) :
    LET e == spawnEvents[i]
    IN  HasEffectiveLimits(e.parentId) =>
          /\ e.inheritedPolicy.dailyLimit <= EffectiveLimits(e.parentId).dailyLimit
          /\ e.inheritedPolicy.maxSpendPerTx
               <= EffectiveLimits(e.parentId).maxSpendPerTx

\* The step is a spawn(p, c) request that arrives after spawn(p, c) succeeded.
RepeatedSpawn(p, c) ==
  /\ lineage[c].exists
  /\ lineage[c].parentId = p
  /\ \E o \in OverrideInputs : authorizeSpawn(p, c, o)

\* C17 as stated: a spawn(p, c) request after a successful spawn(p, c) is
\* rejected as a duplicate lineage and leaves the lineage rows unchanged.
C17_RepeatedSpawnIsDuplicate ==
  [][\A p, c \in Agents :
       RepeatedSpawn(p, c) =>
         resp'.res = "DUPLICATE_LINEAGE" /\ lineage' = lineage]_vars

\* C17 amended: the repeated request is always rejected and leaves the
\* lineage rows unchanged; it is rejected as a duplicate lineage when the
\* parent is not FROZEN, TERMINATED or KILLED and has room for a child.
C17_RepeatedSpawnRejected ==
  [][\A p, c \in Agents :
       RepeatedSpawn(p, c) =>
         /\ resp'.res # "AUTHORIZED"
         /\ lineage' = lineage
         /\ UNCHANGED spawnEvents
         /\ (/\ agentStatus[p] \notin {"FROZEN", "TERMINATED", "KILLED"}
             /\ Len(lineage[p].childrenIds) < DefaultMaxChildren)
              => resp'.res = "DUPLICATE_LINEAGE"]_vars

\* A repeated spawn was just answered: the child has its lineage row under
\* the parent and the last response is the duplicate-lineage rejection.
C17_Witness ==
  /\ resp.op = "spawn" /\ resp.res = "DUPLICATE_LINEAGE"
  /\ \E c \in Agents : lineage[c].exists /\ lineage[c].parentId = Agent
  /\ Len(spawnEvents) = 1

\* C19: an adapter request has delegated to its rail (the Coinbase transfer or
\* the Stripe payment was made) only if the rules verdict permitted immediate
\* execution: approved and not requiring human approval.  (The dead man's
\* switch gate precedes the rules on every path to the rail.)
C19_RailOnlyAfterImmediateVerdict ==
  \A p \in Procs :
    proc[p].pc \in {"cb_record", "x_record"} => proc[p].status = "APPROVED"

\* How specific policy i is for the pair: 1 names the target, 2 names a group
\* the target belongs to, 3 names neither; 4 if it does not apply to the pair.
Specificity(i, sourceId, targetId) ==
  LET pol == crossPolicies[i]
  IN  IF pol.sourceAgentId # sourceId THEN 4
      ELSE IF pol.targetAgentId = targetId THEN 1
      ELSE IF /\ pol.targetAgentGroup \in GroupNames
              /\ agentGroups[pol.targetAgentGroup].exists
              /\ targetId \in agentGroups[pol.targetAgentGroup].agentIds THEN 2
      ELSE IF pol.targetAgentId = Null /\ pol.targetAgentGroup = Null THEN 3
      ELSE 4

\* The step records a cross-agent transaction with authorized = true.
RecordsAuthorized ==
  /\ Len(crossTxs') = Len(crossTxs) + 1
  /\ crossTxs'[Len(crossTxs')].authorized

\* C18: a cross-agent transaction recorded with authorized = true carries an
\* enabled policy that applies to the pair, and no enabled policy for the pair
\* is more specific (exact over group over wildcard).
C18_MostSpecificEnabledPolicy ==
  [][RecordsAuthorized =>
       LET t == crossTxs'[Len(crossTxs')]
           Rank(i) == Specificity(i, t.sourceAgentId, t.targetAgentId)
       IN  /\ t.policyId \in PolicyIds
           /\ crossPolicies[t.policyId].enabled
           /\ Rank(t.policyId) < 4
           /\ \A j \in PolicyIds :
                crossPolicies[j].enabled => Rank(t.policyId) <= Rank(j)]_vars

\* The last request was authorized under a group or wildcard policy while a
\* policy naming the target exists but is disabled.
C18_Witness ==
  /\ resp.op = "cross" /\ resp.res = "AUTHORIZED"
  /\ LET t == crossTxs[resp.tid]
     IN  /\ t.authorized
         /\ crossPolicies[t.policyId].targetAgentId = Null
         /\ \E j \in PolicyIds :
              /\ crossPolicies[j].sourceAgentId = t.sourceAgentId
              /\ crossPolicies[j].targetAgentId = t.targetAgentId
              /\ ~crossPolicies[j].enabled

\* The step creates the row of the submit in slot p.
SubmitCreates(p) ==
  /\ proc[p].op = "submit" /\ proc[p].pc = "create"
  /\ Len(txs') = Len(txs) + 1

\* The step ends the submit in slot p that created a row.
SubmitEnds(p) ==
  /\ proc[p].op = "submit" /\ proc'[p].pc = "idle"
  /\ resp'.tid \in 1..Len(txs')

C22_OneResultPerActiveRule ==
  [][\A p \in Procs :
       (proc[p].pc = "rules" /\ proc'[p] # proc[p]) =>
          LET ev == evaluateTransaction(proc[p].amount, proc[p].recipient)
              n == Len(ev.results)
          IN  /\ n = Cardinality(ActiveRules)
              /\ {ev.results[i].ruleId : i \in 1..n} = ActiveRules
              /\ \A i, j \in 1..n : i < j =>
                    rules[ev.results[i].ruleId].priority
                       >= rules[ev.results[j].ruleId].priority
              /\ \A i \in 1..n :
                    ev.results[i].passed =
                      evaluateRule(rules[ev.results[i].ruleId],
                                   proc[p].amount, proc[p].recipient).passed
              /\ ev.approved <=> \A i \in 1..n : ev.results[i].passed
              /\ proc[p].op = "submit" =>
                   (proc'[p].status = "REJECTED"
                      <=> \E i \in 1..n : ~ev.results[i].passed)
              /\ proc[p].op # "submit" =>
                   (proc'[p].pc = "idle"
                      <=> \E i \in 1..n : ~ev.results[i].passed)]_vars

\* A submit was rejected by an evaluation of four rules in which a rule
\* failed and a rule of lower priority, evaluated after it, failed too.
C22_Witness ==
  \E p \in Procs :
    /\ proc[p].op = "submit" /\ proc[p].pc = "create"
    /\ proc[p].status = "REJECTED"
    /\ LET ev == evaluateTransaction(proc[p].amount, proc[p].recipient)
       IN  /\ Len(ev.results) = 4
           /\ \E i, j \in 1..4 :
                 /\ i < j
                 /\ ~ev.results[i].passed /\ ~ev.results[j].passed
                 /\ rules[ev.results[i].ruleId].priority
                      > rules[ev.results[j].ruleId].priority

\* The rows written by the deposit route.
DepositRows == {i \in TxIds : txs[i].origin = "deposit"}

\* C23: a deposit of a > 0 to an ACTIVE wallet increases the balance by
\* exactly a and writes one COMPLETED row of category deposit, and never goes
\* through the kill switch or the rules; a second deposit adds a again.
C23_DepositAddsAmount ==
  [][\A p \in Procs :
       /\ (proc[p].op = "deposit" /\ proc[p].pc = "d_inc"
             /\ proc'[p] # proc[p]) =>
            /\ walletStatus = "ACTIVE"
            /\ proc[p].amount > 0
            /\ balance' = balance + proc[p].amount
            /\ txs' = txs
       /\ (proc[p].op = "deposit" /\ proc[p].pc = "d_create"
             /\ proc'[p] # proc[p]) =>
            /\ balance' = balance
            /\ Len(txs') = Len(txs) + 1
            /\ \A i \in TxIds : txs'[i] = txs[i]
            /\ txs'[Len(txs')].amount = proc[p].amount
            /\ txs'[Len(txs')].category = "deposit"
            /\ txs'[Len(txs')].status = "COMPLETED"
            /\ resp'.res = "200"
       /\ proc'[p].op = "deposit" =>
            proc'[p].pc \in {"d_inc", "d_create"}]_vars

\* Two deposits of the same amount have been answered 200, one after the
\* other from the seeded state, and the balance holds both.
C23_Witness ==
  /\ resp.op = "deposit" /\ resp.res = "200"
  /\ Len(txs) = 2 /\ DepositRows = {1, 2}
  /\ txs[1].amount = txs[2].amount
  /\ balance = SeedBalance + 2 * txs[1].amount

\* The step is a trigger of the heartbeat monitor.
HeartbeatTriggers ==
  /\ Len(dmsEvents') = Len(dmsEvents) + 1
  /\ dmsEvents'[Len(dmsEvents')].triggerType = "heartbeat"

\* C24: the sweep triggers onMissedHeartbeat for an agent only if the time of
\* the sweep minus the agent's last heartbeat is strictly greater than
\* heartbeatIntervalSeconds * missedHeartbeatThreshold; an entry whose elapsed
\* time equals the product (or is below it) passes the check untouched.
C24_TriggerOnlyBeyondGap ==
  [][/\ HeartbeatTriggers =>
          /\ sweep.pc = "config"
          /\ dmsEvents'[Len(dmsEvents')].agentId = sweep.agentId
          /\ sweep.now - sweep.lastBeat
               > dmsConfig[sweep.agentId].heartbeatIntervalSeconds
                   * dmsConfig[sweep.agentId].missedHeartbeatThreshold
          /\ now - sweep.lastBeat
               > dmsConfig[sweep.agentId].heartbeatIntervalSeconds
                   * dmsConfig[sweep.agentId].missedHeartbeatThreshold
     /\ (sweep.pc = "config" /\ sweep'.pc = "next"
           /\ sweep.now - sweep.lastBeat
                <= dmsConfig[sweep.agentId].heartbeatIntervalSeconds
                     * dmsConfig[sweep.agentId].missedHeartbeatThreshold) =>
          /\ frozenAgents' = frozenAgents
          /\ agentStatus' = agentStatus
          /\ dmsEvents' = dmsEvents]_vars

\* The monitor has frozen the seeded agent for a missed heartbeat.
C24_Witness ==
  /\ dmsEvents # <<>>
  /\ dmsEvents[Len(dmsEvents)].triggerType = "heartbeat"
  /\ dmsEvents[Len(dmsEvents)].agentId = Agent
  /\ Agent \in frozenAgents
  /\ agentStatus[Agent] = "FROZEN"

\* C25: in the in-memory wallet, an order whose value (price * count) exceeds
\* the default approval threshold of 5000 cents is refused with an error that
\* contains 'Requires approval', and is not sent to the exchange client.
C25_LargeOrderRequiresApproval ==
  (aw.last.open /\ aw.last.orderValue > ApprovalOrderValue) =>
       /\ aw.last.error = "Requires approval"
       /\ ~aw.last.sent

\* C26: whatever the interleaving of two approve calls on the same
\* AWAITING_APPROVAL transaction, the wallet is debited exactly once for it:
\* an approved row is never debited a second time.
C26_ApprovedDebitedOnce ==
  \A t \in TxIds :
    (txs[t].origin = "submit" /\ txs[t].amount > SeedApprovalThreshold) =>
       debited[t] <= 1

\* C27: with the DAILY_LIMIT rule of limit L active, after any sequence of
\* submits and approvals the completed non-deposit amounts since the start of
\* the day sum to at most L; approving held transactions cannot lift the
\* day's spend above the limit.
C27_DailySpendWithinLimit ==
  (\E i \in ActiveRules : /\ rules[i].ruleType = "DAILY_LIMIT"
                          /\ rules[i].limit = SeedDailyLimit) =>
     SumIdx(txs, {i \in SpendRowsSince(startOfDay(now)) :
                    txs[i].origin = "submit"}) <= SeedDailyLimit

\* The terminate action has been applied to agent a.
TerminateApplied(a) ==
  \E i \in 1..Len(dmsEvents) :
    dmsEvents[i].agentId = a /\ dmsEvents[i].actionTaken = "terminate"

\* C28: once terminate has been applied to an agent, the transaction gate of
\* the dead man's switch never answers allow for it again, whatever follows,
\* an operator's unfreeze included.
C28_TerminatedNeverAllowed ==
  (TerminateApplied(Agent) /\ resp.op = "evaluate") => resp.res # "ALLOWED"

\* How often agent c occurs in the childrenIds of agent p.
TimesChildOf(c, p) ==
  Cardinality({i \in 1..Len(lineage[p].childrenIds) :
                 lineage[p].childrenIds[i] = c})

\* C29: in every state a request can observe, the lineage rows form a tree:
\* a row c with parent p has depth(p) + 1 and the rootId of p and occurs
\* exactly once in p's childrenIds, and every id in a row's childrenIds has a
\* lineage row whose parentId is that row.
C29_LineageIsTree ==
  /\ \A c \in Agents :
       (lineage[c].exists /\ lineage[c].parentId # Null) =>
          LET p == lineage[c].parentId
          IN  /\ lineage[p].exists
              /\ lineage[c].depth = lineage[p].depth + 1
              /\ lineage[c].rootId = lineage[p].rootId
              /\ TimesChildOf(c, p) = 1
  /\ \A p \in Agents : \A i \in 1..Len(lineage[p].childrenIds) :
       LET c == lineage[p].childrenIds[i]
       IN  lineage[c].exists /\ lineage[c].parentId = p

\* C30: a spawn requested with maxSpendRatio r and a daily limit override o,
\* from a parent whose DAILY_LIMIT rule has the limit L, gives the child the
\* inherited daily limit min(o, L * r) (r is in percent here, so both sides
\* are taken times 100).
C30_ChildDailyLimitUsesRequestedRatio ==
  [][\A p, c \in Agents : \A o \in RatioOverrideInputs :
       (/\ authorizeSpawn(p, c, o)
        /\ resp'.res = "AUTHORIZED"
        /\ parentRuleLimit(p, "DAILY_LIMIT") # NoValue) =>
          100 * spawnEvents'[Len(spawnEvents')].inheritedPolicy.dailyLimit
            = Min(100 * o.dailyLimit,
                  parentRuleLimit(p, "DAILY_LIMIT") * o.maxSpendRatio)]_vars

\* C31: authorizeSpawn rejects, creating no lineage row and no SpawnEvent,
\* whenever the parent's status is anything other than ACTIVE (PAUSED and
\* SUSPENDED parents included).
C31_InactiveParentCannotSpawn ==
  [][\A p, c \in Agents : \A o \in RatioOverrideInputs :
       (authorizeSpawn(p, c, o) /\ agentStatus[p] # "ACTIVE") =>
          /\ resp'.res # "AUTHORIZED"
          /\ lineage' = lineage
          /\ spawnEvents' = spawnEvents]_vars

\* The amounts of the authorized rows of the last 24 hours from the source,
\* to the given targets.
AuthorizedTotal(sourceId, targets) ==
  SumIdx(crossTxs, {i \in 1..Len(crossTxs) :
                      /\ crossTxs[i].sourceAgentId = sourceId
                      /\ crossTxs[i].targetAgentId \in targets
                      /\ crossTxs[i].authorized
                      /\ crossTxs[i].createdAt >= now - DayLen})

\* The share of settled rows among the rows naming the target reaches the
\* policy's minimum trust score.
TrustMet(id, targetId) ==
  LET all == {i \in 1..Len(crossTxs) : crossTxs[i].targetAgentId = targetId}
      good == {i \in all : crossTxs[i].settlementStatus = "settled"}
      score == IF all = {} THEN 0
               ELSE (100 * Cardinality(good)) \div Cardinality(all)
  IN  crossPolicies[id].minCounterpartyTrustScore <= 0
        \/ score >= crossPolicies[id].minCounterpartyTrustScore

\* Every condition of an automatic authorization under policy id, but the
\* human-approval threshold.
ChecksMet(id, sourceId, targetId, amount, paymentType) ==
  LET pol == crossPolicies[id]
  IN  /\ pol.requireMutualPolicy => resolvePolicy(targetId, sourceId) # {}
      /\ paymentType \in pol.allowedPaymentTypes
      /\ amount <= pol.maxPerTransaction
      /\ AuthorizedTotal(sourceId, {targetId}) + amount <= pol.maxDailyToTarget
      /\ AuthorizedTotal(sourceId, Agents) + amount <= pol.maxDailyAllAgents
      /\ TrustMet(id, targetId)

C33_OneRecordPerCall ==
  [][\A a \in Amounts, pt \in PaymentTypes :
       authorizeTransaction(Agent, "agent2", a, pt) =>
         /\ Len(crossTxs') = Len(crossTxs) + 1
         /\ SubSeq(crossTxs', 1, Len(crossTxs)) = crossTxs]_vars

\* The amounts of the authorized rows from the source to the target under
\* policy id, created in the 24 hours that start at w.
WindowTotal(sourceId, targetId, id, w) ==
  SumIdx(crossTxs, {i \in 1..Len(crossTxs) :
                      /\ crossTxs[i].sourceAgentId = sourceId
                      /\ crossTxs[i].targetAgentId = targetId
                      /\ crossTxs[i].policyId = id
                      /\ crossTxs[i].authorized
                      /\ crossTxs[i].createdAt >= w
                      /\ crossTxs[i].createdAt <= w + DayLen})

\* C34: the sum of the authorized amounts from a source to a target within any
\* 24-hour window never exceeds the policy's maxDailyToTarget, for any
\* sequence of authorize and approve calls.
C34_DailyToTargetNeverExceeded ==
  \A id \in 1..Len(crossPolicies) : \A w \in 0..MaxTime :
    WindowTotal(Agent, "agent2", id, w) <= crossPolicies[id].maxDailyToTarget

\* C35: every CrossAgentTransaction row with authorized = true has
\* settlementStatus settled or pending, never failed, the rows authorized by
\* an operator's approval included.
C35_AuthorizedNeverFailed ==
  \A i \in 1..Len(crossTxs) :
    crossTxs[i].authorized =>
      crossTxs[i].settlementStatus \in {"settled", "pending"}

\* The agent is registered with an enabled configuration whose
\* onMissedHeartbeat is freeze, and the monitor knows a heartbeat of it.
Armed(a) ==
  /\ Exists(a)
  /\ dmsConfig[a].exists /\ dmsConfig[a].enabled
  /\ dmsConfig[a].onMissedHeartbeat = "freeze"
  /\ \E i \in 1..Len(heartbeats) : heartbeats[i].agentId = a

\* The last heartbeat of the agent is older than the configured gap.
Overdue(a) ==
  \E i \in 1..Len(heartbeats) :
    /\ heartbeats[i].agentId = a
    /\ now - heartbeats[i].at >
         dmsConfig[a].heartbeatIntervalSeconds * dmsConfig[a].missedHeartbeatThreshold

\* C36: a registered agent (enabled configuration, onMissedHeartbeat = freeze)
\* that stops sending heartbeats is eventually, under fair firing of the
\* timer, added to the frozen set and its status set to FROZEN: from a state
\* where its last heartbeat is older than the gap, either the agent is frozen
\* or a new heartbeat or registration ends the silence.
C36_SilentAgentEventuallyFrozen ==
  \A a \in {Agent, "agent2"} :
    (Armed(a) /\ Overdue(a)) ~>
       \/ a \in frozenAgents /\ agentStatus[a] = "FROZEN"
       \/ ~Overdue(a)

\* The sweep froze a silent agent: its heartbeat event is recorded, the agent
\* is in the frozen set with status FROZEN, and its last heartbeat is overdue.
C36_Witness ==
  \E a \in {Agent, "agent2"} :
    /\ Armed(a) /\ Overdue(a)
    /\ a \in frozenAgents /\ agentStatus[a] = "FROZEN"
    /\ \E i \in 1..Len(dmsEvents) :
         /\ dmsEvents[i].agentId = a
         /\ dmsEvents[i].triggerType = "heartbeat"
         /\ dmsEvents[i].actionTaken = "freeze"

\* C37: a kill switch that was reset and whose condition fires again latches
\* again: once it is triggered, checkKillSwitch blocks the transaction at
\* once, without evaluating the condition again, until the next reset.
C37_ResetSwitchLatchesAgain ==
  [][\A p \in Procs :
       (/\ CheckKillSwitch(p)
        /\ killSwitch.exists /\ killSwitch.active /\ killSwitch.triggered) =>
          /\ proc'[p].pc \notin {"ks_set", "rules"}
          /\ proc'[p].killSwitched]_vars

\* C38: a deposit never makes a DRAWDOWN_PERCENT switch fire: when the only
\* COMPLETED rows of the window are deposits, the drawdown the check computes
\* is 0 (the peak equals the balance) and the switch does not trigger.
C38_DepositsNeverTrigger ==
  [][\A p \in Procs :
       (/\ CheckKillSwitch(p)
        /\ killSwitch.exists /\ killSwitch.active /\ ~KsBlocks(killSwitch)
        /\ KsWindowRows # {}
        /\ \A i \in KsWindowRows : txs[i].category = "deposit") =>
          /\ peakBalance = balance
          /\ proc'[p].pc # "ks_set"]_vars

\* C39: throttle is applied at most once per rule: once a DAILY_LIMIT rule is
\* marked throttled, a further throttle trigger of the monitor leaves its
\* limit unchanged.
C39_ThrottledOnce ==
  [][SweepCheck =>
       \A i \in 1..Len(rules) :
         (rules[i].ruleType = "DAILY_LIMIT" /\ rules[i].throttled) =>
            rules'[i].limit * rules[i].limitDiv
              = rules[i].limit * rules'[i].limitDiv]_vars

\* The ACTION_ events the log holds for action id, in the order of the log.
ActionEvents(id) ==
  LET Mine(e) == e.action = id /\ e.eventType # "RULE_TRIGGERED"
      mine == SelectSeq(aw.events, Mine)
  IN  [i \in 1..Len(mine) |-> mine[i].eventType]

\* C40: every action requested through the in-memory wallet appends its audit
\* events in a fixed order: ACTION_REQUESTED first, then either ACTION_DENIED,
\* and the action function is never invoked, or ACTION_ALLOWED followed by
\* exactly one of ACTION_EXECUTED and ACTION_FAILED once the client has
\* answered.
C40_AuditOrder ==
  \A id \in 1..Len(aw.calls) :
    LET c == aw.calls[id]
    IN  CASE c.status = "denied" ->
               /\ ActionEvents(id) = <<"ACTION_REQUESTED", "ACTION_DENIED">>
               /\ ~c.invoked
          [] c.status = "pending" ->
               /\ ActionEvents(id) = <<"ACTION_REQUESTED", "ACTION_ALLOWED">>
               /\ c.invoked
          [] c.status = "executed" ->
               /\ ActionEvents(id) = <<"ACTION_REQUESTED", "ACTION_ALLOWED",
                                       "ACTION_EXECUTED">>
               /\ c.invoked
          [] c.status = "failed" ->
               /\ ActionEvents(id) = <<"ACTION_REQUESTED", "ACTION_ALLOWED",
                                       "ACTION_FAILED">>
               /\ c.invoked

\* Two allowed orders were in flight together and the second was answered
\* first; a third order was refused by a rule.
C40_Witness ==
  /\ Len(aw.calls) = 3
  /\ aw.calls[1].status = "failed"
  /\ aw.calls[2].status = "executed"
  /\ aw.calls[3].status = "denied"
  /\ \E i, j, k \in 1..Len(aw.events) :
       /\ i < j
       /\ aw.events[i] = [action |-> 2, eventType |-> "ACTION_EXECUTED"]
       /\ aw.events[j] = [action |-> 1, eventType |-> "ACTION_FAILED"]
       /\ aw.events[k] = [action |-> 3, eventType |-> "RULE_TRIGGERED"]

====
